---- MODULE Spec2Model ----
(***************************************************************************)
(* Jazz-Loop: the AudioEngine of src/services/audioEngine.ts together with *)
(* the Tone.js services it drives (Transport, Loop, Draw, the audio        *)
(* context clock) and the callbacks JazzCanvas registers on it.            *)
(*                                                                         *)
(* Time is counted in quanta of 1/QuantaPerSecond seconds.  `now` is       *)
(* Tone.now() (context.currentTime + lookAhead); the render side reads     *)
(* context.currentTime.  Vertical/horizontal positions are the rationals   *)
(* k/YDen.                                                                 *)
(***************************************************************************)
EXTENDS Integers, Sequences, FiniteSets, TLC

\* ------------------------------------------------------------------ bounds
QuantaPerSecond == 16
YDen == 2
MaxTime == 9
MaxGestureTime == 5
MaxLoads == 2
MaxPending == 2
MaxCalls == 2
MaxLoopTime == 36
MaxSkips == 2
MaxBacklog == 16
\* the faulty-backend sessions are followed up to this time (quanta)
MaxFaultTime == 10
\* hand-tracking callbacks followed in a session
MaxFrames == 2
\* levels are held in EnergyDen-ths of full scale, lengths in PxDen-ths of a pixel,
\* a burst's life in LifeDen-ths
EnergyDen == 20
PxDen == 2
LifeDen == 100
\* agents of a graph-mode population whose motion is followed
SampleSize == 2
\* draw ticks counted by frameCount
MaxDraws == 3
\* quanta of audio time followed while bursts are delivered
MaxBurstTime == 6
\* pixels a graph node is followed away from the canvas origin
MaxReach == 20
\* engine calls parked at Tone.start() at one time
MaxParked == 2

\* --------------------------------------------------------------- constants
Genres == {"JAZZ", "ELECTRONIC", "FUNK"}
Null == "null"
Undefined == "undefined"

JAZZ_SCALE_RIGHT == <<"C5", "D5", "Eb5", "F5", "G5", "A5", "Bb5", "C6", "Eb6", "F6">>
JAZZ_SCALE_LEFT == <<"C3", "Eb3", "F3", "G3", "Bb3", "C4", "Eb4", "F4", "G4", "Bb4", "C5">>
JAZZ_BASS == <<"C2", "Eb2", "F2", "Gb2", "G2", "Bb2", "C3">>
ELECTRONIC_SCALE_RIGHT == <<"E4", "G4", "A4", "B4", "D5", "E5", "G5", "A5", "B5", "D6", "E6">>
ELECTRONIC_SCALE_LEFT == <<"E3", "G3", "A3", "B3", "D4", "E4">>
ELECTRONIC_BASS == <<"E2", "E2", "G2", "E2", "A2", "E2", "B2", "D2">>
FUNK_SCALE_RIGHT == <<"E4", "G4", "A4", "B4", "D5", "E5", "G5", "A5", "B5", "D6">>
FUNK_SCALE_LEFT == <<"E3", "G3", "A3", "B3", "D4", "E4">>

\* the dead zone of the caller's movement test (velocity > 0.005), in thousandths
DeadZonePermille == 5

\* Tone.js defaults, in milliseconds
LookAheadMs == 100
AnticipationMs == 8
ExpirationMs == 250

Round(num, den) == (2 * num + den) \div (2 * den)
Max(a, b) == IF a >= b THEN a ELSE b
Min(a, b) == IF a <= b THEN a ELSE b

LookAhead == Round(LookAheadMs * QuantaPerSecond, 1000)
\* rounded up: any anticipation lets an event through one quantum early
Anticipation == (AnticipationMs * QuantaPerSecond + 999) \div 1000
Expiration == Round(ExpirationMs * QuantaPerSecond, 1000)

\* Tone.Transport.bpm / swing as set by setupJazz / setupElectronic / setupFunk
Bpm(g) == CASE g = "JAZZ" -> 120 [] g = "ELECTRONIC" -> 135 [] g = "FUNK" -> 112
SwingPermille(g) == CASE g = "JAZZ" -> 600 [] g = "ELECTRONIC" -> 0 [] g = "FUNK" -> 100

\* duration of a "16n" at tempo b: 15/b seconds
Sixteenth(b) == Round(15 * QuantaPerSecond, b)

\* Transport swing (swingSubdivision "8n"): a tick that is not on a quarter
\* note is delayed by (2/3 of an eighth) * sin(progress * pi) * swing
SinPermille(k) == CASE k % 4 = 0 -> 0 [] k % 4 = 2 -> 1000 [] OTHER -> 707
SwingDelay(b, s, k) == Round(20 * QuantaPerSecond * s * SinPermille(k), b * 1000000)

\* ------------------------------------------------------------------ state
VARIABLES
    isInitialized, currentGenre, inst,
    beatCallback, noteCallback,
    lastRightTime, lastLeftTime, lastLeftNoteIndex, loopCounter,
    bpm, swing, transportState, transportOrigin, tickIndex, loops,
    now, ctxState,
    drawEvents, rafPending,
    epoch, handCalls, call, fired, delivered, tried, issued, lastStep,
    backendFaulty, renderStalled,
    handTracker, p5Instance, teardown,
    appState, genreProp,
    handState, frames, width, height, sketchGenre, particles, agents, smoothedAudio,
    noteTriggers, frameCount, fed,
    pendingCalls, masterChains

engineVars == <<isInitialized, currentGenre, inst, beatCallback, noteCallback,
                lastRightTime, lastLeftTime, lastLeftNoteIndex, loopCounter>>
transportVars == <<bpm, swing, transportState, transportOrigin, tickIndex, loops>>
clockVars == <<now, ctxState>>
drawVars == <<drawEvents, rafPending>>
ghostVars == <<epoch, handCalls, call, fired, delivered, tried, issued, lastStep>>
\* the environment's faults: a backend whose trigger calls may throw, a browser that
\* has stopped running animation frames
envVars == <<backendFaulty, renderStalled>>
\* the engine's asynchronous calls that wait on Tone.start(), and how many times the
\* master chain (limiter, meter, media destination, reverb) has been constructed
asyncVars == <<pendingCalls, masterChains>>
\* what the JazzCanvas effect owns: the hand tracker, the p5 sketch, and the order in
\* which its cleanup released them
canvasVars == <<handTracker, p5Instance, teardown>>
\* App: the session state of App.tsx and the genre prop it hands to JazzCanvas
appVars == <<appState, genreProp>>
\* the sketch of the JazzCanvas effect: the shared hand snapshot (handStateRef), the
\* canvas size, the agent population, the smoothed level, the note bursts
\* (noteTriggersRef).  `sketchGenre` is the genre the sketch closed over, `agents`
\* the agents of the population whose motion is followed, `frames` counts
\* hand-tracking callbacks, `fed` remembers the levels fed to the sketch
sketchVars == <<handState, frames, width, height, sketchGenre, particles, agents,
                smoothedAudio, noteTriggers, frameCount, fed>>
vars == <<engineVars, transportVars, clockVars, drawVars, ghostVars, envVars, asyncVars, canvasVars,
          appVars, sketchVars, asyncVars>>

InstNames == {"rightSynth", "leftSynth", "bassSynth", "drumKick", "drumSnare", "drumHiHat",
              "leftEffect", "rightEffect", "rightFilter", "leftFilter", "extraEffect",
              "funkVibrato"}

Ys == 0 .. YDen
Xs == {YDen}
Squeezes == {1}

NoInstruments == [n \in InstNames |-> Null]
\* history: the note commands and visual events issued for a voice's latest accepted
\* fire time, and the candidate time of the voice's latest trigger call
NoneIssued == [notes |-> 0, visuals |-> 0]
Voices == {"right", "left"}
NoCall == [op |-> "none", voice |-> "none", y |-> 0, trigger |-> FALSE,
           noteIndex |-> -1, note |-> Null, triggerTime |-> 0, prevLast |-> 0,
           prevTried |-> 0,
           gate |-> FALSE, threw |-> FALSE, step |-> -1, tick |-> -1, played |-> FALSE,
           results |-> <<>>, raw |-> 0, prevSmoothed |-> 0, prevAgents |-> <<>>,
           edges |-> <<>>, prevBursts |-> <<>>,
           prevStep |-> -1, time |-> 0, queued |-> <<>>, prevGenre |-> "none",
           prevLoops |-> 0, prevLasts |-> [right |-> 0, left |-> 0], calls |-> <<>>, prevHands |-> [left |-> <<>>, right |-> <<>>],
           hands |-> [left |-> <<>>, right |-> <<>>]]

\* handStateRef before the first hand-tracking callback: { left: null, right: null }
\* (a side is <<>> for null, or <<coords>>)
NoHands == [left |-> <<>>, right |-> <<>>]
\* let particles = []: the population before setup, held as its class and its size
NoParticles == [class |-> "none", count |-> 0]
\* no level has been read yet: every sequence of levels is non-decreasing so far
\* the meter's reading of silence (Tone.Meter gives -Infinity dB)
Silent == -1000
NothingFed == [last |-> Silent, rising |-> TRUE]

\* context.currentTime, the clock Tone.Draw and the render loop read
currentTime == now - LookAhead

Init ==
    /\ isInitialized = FALSE
    /\ currentGenre = "JAZZ"
    /\ inst = NoInstruments
    /\ beatCallback = FALSE
    /\ noteCallback = FALSE
    /\ lastRightTime = 0
    /\ lastLeftTime = 0
    /\ lastLeftNoteIndex = -1
    /\ loopCounter = 0
    /\ bpm = 120
    /\ swing = 0
    /\ transportState = "stopped"
    /\ transportOrigin = 0
    /\ tickIndex = 0
    /\ loops = 0
    /\ now = LookAhead
    /\ ctxState = "suspended"
    /\ drawEvents = <<>>
    /\ rafPending = FALSE
    /\ epoch = 0
    /\ handCalls = 0
    /\ call = NoCall
    /\ fired = <<>>
    /\ delivered = <<>>
    /\ tried = [v \in Voices |-> 0]
    /\ issued = [v \in Voices |-> NoneIssued]
    /\ lastStep = -1
    /\ backendFaulty = FALSE
    /\ renderStalled = FALSE
    /\ handTracker = "none"
    /\ p5Instance = "none"
    /\ teardown = <<>>
    /\ appState = "IDLE"
    /\ genreProp = "JAZZ"
    /\ handState = NoHands
    /\ frames = 0
    /\ width = 0
    /\ height = 0
    /\ sketchGenre = "JAZZ"
    /\ particles = NoParticles
    /\ agents = <<>>
    /\ smoothedAudio = 0
    /\ noteTriggers = <<>>
    /\ frameCount = 0
    /\ fed = NothingFed
    /\ pendingCalls = <<>>
    /\ masterChains = 0

\* ------------------------------------------------------- genre provisioning
\* the instrument fields each setup constructs, tagged with the genre
setupJazz(base) == [n \in InstNames |->
    IF n \in {"rightSynth", "rightFilter", "rightEffect", "leftSynth", "leftEffect",
              "bassSynth", "drumHiHat", "drumKick"} THEN "JAZZ" ELSE base[n]]
setupElectronic(base) == [n \in InstNames |->
    IF n \in {"rightSynth", "rightEffect", "leftSynth", "leftFilter", "leftEffect",
              "bassSynth", "drumHiHat", "drumSnare", "drumKick"} THEN "ELECTRONIC" ELSE base[n]]
setupFunk(base) == [n \in InstNames |->
    IF n \in {"rightSynth", "leftSynth", "leftFilter", "leftEffect",
              "bassSynth", "drumHiHat", "drumSnare", "drumKick"} THEN "FUNK" ELSE base[n]]

\* a disposal that leaves the fields as they are
disposeNothing == inst

\* disposeInstruments(): every instrument and effect field disposed and nulled
disposeInstruments == NoInstruments

\* a PolySynth left voice plays "16n", the MonoSynth (jazz sax) "8n"
IsPolySynth(field, tag) ==
    \/ field = "rightSynth" /\ tag \in {"JAZZ", "FUNK"}
    \/ field = "leftSynth" /\ tag \in {"ELECTRONIC", "FUNK"}
IsMonoSynth(field, tag) ==
    \/ field = "rightSynth" /\ tag = "ELECTRONIC"
    \/ field = "leftSynth" /\ tag = "JAZZ"

\* --------------------------------------------------------------- Transport
TickTime(k) == transportOrigin + k * Sixteenth(bpm)

\* Tone.Transport.nextSubdivision("16n"): 0 while the transport is not started,
\* else the time of the first sixteenth boundary strictly after now
nextSubdivision ==
    IF transportState # "started" THEN 0
    ELSE transportOrigin + ((now - transportOrigin) \div Sixteenth(bpm) + 1) * Sixteenth(bpm)

LoopTickDue == loops > 0 /\ transportState = "started" /\ TickTime(tickIndex) <= now

\* -------------------------------------------------------------- Tone.Draw
\* Timeline.add: after the last event whose time is <= the new one
RECURSIVE InsertEvent(_, _)
InsertEvent(q, e) ==
    IF q = <<>> THEN <<e>>
    ELSE IF Head(q).time <= e.time THEN <<Head(q)>> \o InsertEvent(Tail(q), e)
    ELSE <<e>> \o q

RECURSIVE ScheduleAll(_, _)
ScheduleAll(q, es) ==
    IF es = <<>> THEN q ELSE ScheduleAll(InsertEvent(q, Head(es)), Tail(es))

\* the queue lengths explored: a few events while frames keep coming, a bar and
\* more while the browser runs none
PendingCap == IF renderStalled THEN MaxBacklog ELSE MaxPending

\* Draw.schedule requests an animation frame when the event it added is the only one
RafAfterSchedule(es) == rafPending \/ (es # <<>> /\ drawEvents = <<>>)

VisualEvent(kind, x, y, t) == [time |-> t, kind |-> kind, x |-> x, y |-> y, epoch |-> epoch]
IsBeat(e) == e.kind \in {"KICK", "SNARE"}

\* ------------------------------------------------------------- operations
\* initialize() with no other call in flight: Tone.start() resumes the audio context,
\* the master chain is built
initialize ==
    /\ ~isInitialized
    /\ isInitialized' = TRUE
    /\ ctxState' = "running"
    /\ masterChains' = masterChains + 1
    /\ UNCHANGED pendingCalls
    /\ call' = [NoCall EXCEPT !.op = "initialize"]
    /\ fired' = <<>>
    /\ delivered' = <<>>
    /\ UNCHANGED <<currentGenre, inst, beatCallback, noteCallback, lastRightTime,
                   lastLeftTime, lastLeftNoteIndex, loopCounter, transportVars, now,
                   drawVars, epoch, handCalls, tried, issued, lastStep>>
    /\ UNCHANGED <<envVars, canvasVars, appVars, sketchVars>>

\* the JazzCanvas effect registers both callbacks: audioEngine.onBeat(..) and
\* audioEngine.onNoteTriggered(..)
onBeat == beatCallback' = TRUE
onNoteTriggered == noteCallback' = TRUE

connectAudioEvents ==
    /\ onBeat
    /\ onNoteTriggered
    /\ call' = [NoCall EXCEPT !.op = "connectAudioEvents"]
    /\ fired' = <<>>
    /\ delivered' = <<>>
    /\ UNCHANGED <<isInitialized, currentGenre, inst, lastRightTime,
                   lastLeftTime, lastLeftNoteIndex, loopCounter, transportVars, clockVars,
                   drawVars, epoch, handCalls, tried, issued, lastStep>>
    /\ UNCHANGED <<envVars, asyncVars, canvasVars, appVars, sketchVars>>

\* a cancel that leaves the scheduled loops on the transport
LoopsKept == loops

\* Tone.Transport.cancel(): every scheduled loop is removed from the transport
LoopsAfterCancel == 0

\* stop(): Transport.stop(), Transport.cancel(), disposeInstruments(), callbacks cleared
stop ==
    /\ transportState' = "stopped"
    /\ loops' = LoopsAfterCancel
    /\ tickIndex' = 0
    /\ inst' = disposeInstruments
    /\ beatCallback' = FALSE
    /\ noteCallback' = FALSE
    /\ call' = [NoCall EXCEPT !.op = "stop", !.prevGenre = currentGenre,
                               !.prevLoops = loops, !.queued = drawEvents]
    /\ fired' = <<>>
    /\ delivered' = <<>>
    /\ UNCHANGED <<isInitialized, currentGenre, lastRightTime, lastLeftTime,
                   lastLeftNoteIndex, loopCounter, bpm, swing, transportOrigin, clockVars,
                   drawVars, epoch, handCalls, tried, issued, lastStep>>
    /\ UNCHANGED <<envVars, asyncVars, canvasVars, appVars, sketchVars>>

\* a load that keeps the previous accepted times
TriggerKept == [right |-> lastRightTime, left |-> lastLeftTime, index |-> lastLeftNoteIndex]

\* this.lastRightTime = 0; this.lastLeftTime = 0; this.lastLeftNoteIndex = -1
TriggerReset == [right |-> 0, left |-> 0, index |-> -1]

\* a load that leaves currentGenre as it was
GenreKept(genre) == currentGenre

\* this.currentGenre = genre
GenreLoaded(genre) == genre

\* the synchronous part of loadGenre(genre): stop/cancel/rewind the transport, reset
\* the trigger state, dispose, set up the genre, schedule the backing loop, start
loadGenreSteps(genre) ==
    /\ isInitialized' = TRUE
    /\ ctxState' = IF isInitialized THEN ctxState ELSE "running"
    /\ currentGenre' = GenreLoaded(genre)
    /\ lastRightTime' = TriggerReset.right
    /\ lastLeftTime' = TriggerReset.left
    /\ lastLeftNoteIndex' = TriggerReset.index
    /\ loopCounter' = 0
    /\ inst' = CASE genre = "JAZZ" -> setupJazz(disposeInstruments)
                 [] genre = "ELECTRONIC" -> setupElectronic(disposeInstruments)
                 [] genre = "FUNK" -> setupFunk(disposeInstruments)
    /\ bpm' = Bpm(genre)
    /\ swing' = SwingPermille(genre)
    /\ transportOrigin' = now
    /\ tickIndex' = 0
    /\ loops' = LoopsAfterCancel + 1
    /\ transportState' = "started"
    /\ epoch' = epoch + 1
    /\ UNCHANGED handCalls
    /\ tried' = [v \in Voices |-> 0]
    /\ issued' = [v \in Voices |-> NoneIssued]
    /\ lastStep' = -1
    /\ call' = [NoCall EXCEPT !.op = "loadGenre", !.prevGenre = currentGenre,
                               !.prevLoops = loops, !.queued = drawEvents,
                               !.prevLasts = [right |-> lastRightTime,
                                              left |-> lastLeftTime]]
    /\ fired' = <<>>
    /\ delivered' = <<>>
    /\ UNCHANGED <<beatCallback, noteCallback, now, drawVars>>
    /\ UNCHANGED <<envVars, canvasVars, appVars, sketchVars>>

\* loadGenre(genre) with no other call in flight: initialize if needed, then the
\* synchronous part
loadGenre(genre) ==
    /\ epoch < MaxLoads
    /\ loadGenreSteps(genre)
    /\ masterChains' = IF isInitialized THEN masterChains ELSE masterChains + 1
    /\ UNCHANGED pendingCalls

\* the engine's calls as the event loop runs them: a call on an engine that is not
\* initialized parks at `await Tone.start()` and is resumed later
Parked(op, genre, at) == [op |-> op, genre |-> genre, at |-> at]
Without(q, i) == [k \in 1 .. Len(q) - 1 |-> IF k < i THEN q[k] ELSE q[k + 1]]
ParkedLoads == Cardinality({i \in 1 .. Len(pendingCalls) : pendingCalls[i].op = "loadGenre"})

\* initialize() up to its await: `if (this.isInitialized) return; await Tone.start()`
initializeCalled ==
    /\ Len(pendingCalls) < MaxParked
    /\ pendingCalls' = IF isInitialized THEN pendingCalls
                       ELSE Append(pendingCalls, Parked("initialize", Null, "start"))
    /\ call' = [NoCall EXCEPT !.op = "initializeCalled"]
    /\ fired' = <<>>
    /\ delivered' = <<>>
    /\ UNCHANGED <<engineVars, transportVars, clockVars, drawVars, epoch, handCalls,
                   tried, issued, lastStep, envVars, canvasVars, appVars, sketchVars,
                   masterChains>>

\* loadGenre(genre) up to its await: `if (!this.isInitialized) await this.initialize()`
\* runs initialize() up to Tone.start(); on an initialized engine the call runs through
loadGenreCalled(genre) ==
    /\ epoch + ParkedLoads < MaxLoads
    /\ IF isInitialized
       THEN loadGenreSteps(genre) /\ UNCHANGED asyncVars
       ELSE /\ Len(pendingCalls) < MaxParked
            /\ pendingCalls' = Append(pendingCalls, Parked("loadGenre", genre, "start"))
            /\ call' = [NoCall EXCEPT !.op = "loadGenreCalled"]
            /\ fired' = <<>>
            /\ delivered' = <<>>
            /\ UNCHANGED <<engineVars, transportVars, clockVars, drawVars, epoch,
                           handCalls, tried, issued, lastStep, envVars, canvasVars,
                           appVars, sketchVars, masterChains>>

\* Tone.start() of parked call i fulfils and initialize() runs on from line 56: it
\* builds limiter, meter, media destination and reverb and sets isInitialized.  An
\* initialize() inside loadGenre hands over to the load's own continuation
startResolved(i) ==
    /\ i \in 1 .. Len(pendingCalls)
    /\ pendingCalls[i].at = "start"
    /\ masterChains' = masterChains + 1
    /\ isInitialized' = TRUE
    /\ ctxState' = "running"
    /\ pendingCalls' = IF pendingCalls[i].op = "initialize" THEN Without(pendingCalls, i)
                       ELSE [pendingCalls EXCEPT ![i].at = "initialized"]
    /\ call' = [NoCall EXCEPT !.op = "startResolved"]
    /\ fired' = <<>>
    /\ delivered' = <<>>
    /\ UNCHANGED <<currentGenre, inst, beatCallback, noteCallback, lastRightTime,
                   lastLeftTime, lastLeftNoteIndex, loopCounter, transportVars, now,
                   drawVars, epoch, handCalls, tried, issued, lastStep, envVars,
                   canvasVars, appVars, sketchVars>>

\* Tone.start() of parked call i rejects: the call ends with the rejection
startRefused(i) ==
    /\ i \in 1 .. Len(pendingCalls)
    /\ pendingCalls[i].at = "start"
    /\ pendingCalls' = Without(pendingCalls, i)
    /\ call' = [NoCall EXCEPT !.op = "startRefused"]
    /\ fired' = <<>>
    /\ delivered' = <<>>
    /\ UNCHANGED <<engineVars, transportVars, clockVars, drawVars, epoch, handCalls,
                   tried, issued, lastStep, envVars, canvasVars, appVars, sketchVars,
                   masterChains>>

\* parked loadGenre i resumes after its initialize() and runs its synchronous part
loadGenreResumed(i) ==
    /\ i \in 1 .. Len(pendingCalls)
    /\ pendingCalls[i].at = "initialized"
    /\ loadGenreSteps(pendingCalls[i].genre)
    /\ pendingCalls' = Without(pendingCalls, i)
    /\ UNCHANGED masterChains

\* ------------------------------------------------------------ interaction
Scale(voice, g) ==
    IF voice = "right"
    THEN (IF g = "ELECTRONIC" THEN ELECTRONIC_SCALE_RIGHT
          ELSE IF g = "FUNK" THEN FUNK_SCALE_RIGHT ELSE JAZZ_SCALE_RIGHT)
    ELSE (IF g = "ELECTRONIC" THEN ELECTRONIC_SCALE_LEFT
          ELSE IF g = "FUNK" THEN FUNK_SCALE_LEFT ELSE JAZZ_SCALE_LEFT)

\* Math.max(0, Math.min(1, y)) on y = k/YDen
Clamp01(k) == Max(0, Min(YDen, k))

\* Math.floor((1 - clamp(y)) * scale.length)
NoteIndex(k, len) == ((YDen - Clamp01(k)) * len) \div YDen

\* scale[noteIndex]; JavaScript indexes from 0 and yields undefined out of range
NoteAt(scale, i) == IF i >= 0 /\ i < Len(scale) THEN scale[i + 1] ELSE Undefined

\* Math.max(Tone.now(), Tone.Transport.nextSubdivision("16n"))
TriggerTime == Max(now, nextSubdivision)

\* gates that let a candidate time through that the code's gate stops
AcceptsNotEarlier(triggerTime, last) == triggerTime >= last
AcceptsAlways(triggerTime, last) == TRUE

\* the gate of both hand updates: triggerTime > last accepted time of the voice
Accepts(triggerTime, last) == triggerTime > last

\* a synth handed an undefined pitch either throws or plays an unspecified pitch;
\* on a faulty backend any trigger call may throw
SynthThrows(note) == IF note = Undefined \/ backendFaulty THEN BOOLEAN ELSE {FALSE}

\* an update that records the accepted time before commanding the synth
LastSetBeforeTrigger(triggerTime, last) == triggerTime

\* the voice's last accepted time when triggerAttackRelease throws: the assignment
\* follows the call inside the try block and is skipped
LastAfterThrow(triggerTime, last) == last

Command(field, args, t) == [inst |-> field, args |-> args, time |-> t]

\* a right-hand update that leaves the timbre alone
NoAutomation(squeeze) == <<>>

\* the timbre automation at the head of updateRightHand (set / rampTo commands)
RightAutomation(squeeze) ==
    CASE currentGenre = "JAZZ" /\ IsPolySynth("rightSynth", inst["rightSynth"])
            -> <<Command("rightSynth.detune", <<squeeze * (-50)>>, now)>>
      [] currentGenre = "ELECTRONIC" /\ IsMonoSynth("rightSynth", inst["rightSynth"])
            -> <<Command("rightSynth.detune", <<squeeze * (-1200), 50>>, now)>>
      [] currentGenre = "FUNK" /\ IsPolySynth("rightSynth", inst["rightSynth"])
            -> <<Command("rightSynth.detune", <<squeeze * (-500)>>, now)>>
      [] OTHER -> <<>>

\* the timbre automation at the head of updateLeftHand
LeftAutomation(x, squeeze) ==
    CASE currentGenre = "JAZZ"
            -> <<Command("leftSynth.detune", <<squeeze * (-200), 100>>, now),
                 Command("leftEffect.frequency", <<500 + (x * 3500) \div YDen, 100>>, now)>>
      [] currentGenre = "ELECTRONIC" /\ inst["leftFilter"] # Null
            -> <<Command("leftFilter.frequency", <<200 + (1 - squeeze) * 8000, 100>>, now)>>
      [] currentGenre = "FUNK" /\ inst["leftFilter"] # Null
            -> <<Command("leftFilter.frequency", <<300 + (1 - squeeze) * 3200, 50>>, now)>>
      [] OTHER -> <<>>

IssuedAfter(v, t, last, es) ==
    IF t = last THEN [notes |-> issued[v].notes + 1, visuals |-> issued[v].visuals + Len(es)]
    ELSE [notes |-> 1, visuals |-> Len(es)]

\* one trigger time shared by both voices
SharedVoice(own, other) == own

\* each voice has its own field (lastRightTime, lastLeftTime): an update of one
\* voice, whose last accepted time is now `own`, leaves the other's as it was
OtherVoice(own, other) == other

CallInfo(op, voice, y, trigger, noteIndex, note, triggerTime, last, gate) ==
    [NoCall EXCEPT !.op = op, !.voice = voice, !.y = y, !.trigger = trigger,
                   !.noteIndex = noteIndex, !.note = note, !.triggerTime = triggerTime,
                   !.prevLast = last, !.prevTried = tried[voice], !.gate = gate, !.queued = drawEvents,
                   !.time = now]

updateRightHand(y, x, trigger, squeeze) ==
    /\ handCalls < MaxCalls
    /\ handCalls' = handCalls + 1
    /\ IF inst["rightSynth"] = Null \/ ~isInitialized
       THEN /\ call' = CallInfo("updateRightHand", "right", y, trigger, -1, Null, 0,
                                lastRightTime, FALSE)
            /\ fired' = <<>>
            /\ UNCHANGED <<lastRightTime, drawVars, tried, issued>>
       ELSE IF ~trigger
       THEN /\ call' = CallInfo("updateRightHand", "right", y, trigger, -1, Null, 0,
                                lastRightTime, FALSE)
            /\ fired' = RightAutomation(squeeze)
            /\ UNCHANGED <<lastRightTime, drawVars, tried, issued>>
       ELSE LET scale == Scale("right", currentGenre)
                noteIndex == NoteIndex(y, Len(scale))
                note == NoteAt(scale, noteIndex)
                triggerTime == TriggerTime
                gate == Accepts(triggerTime, lastRightTime)
                info == CallInfo("updateRightHand", "right", y, trigger, noteIndex, note,
                                 triggerTime, lastRightTime, gate)
            IN  IF ~gate
                THEN /\ call' = info
                     /\ fired' = RightAutomation(squeeze)
                     /\ tried' = [tried EXCEPT !["right"] = triggerTime]
                     /\ UNCHANGED issued
                     /\ UNCHANGED <<lastRightTime, drawVars>>
                ELSE \E throws \in SynthThrows(note) :
                     IF throws
                     THEN /\ call' = [info EXCEPT !.threw = TRUE]
                          /\ fired' = RightAutomation(squeeze)
                          /\ tried' = [tried EXCEPT !["right"] = triggerTime]
                          /\ lastRightTime' = LastAfterThrow(triggerTime, lastRightTime)
                          /\ UNCHANGED <<issued, drawVars>>
                     ELSE LET es == IF noteCallback
                                    THEN <<VisualEvent("LEAD", x, y, triggerTime)>>
                                    ELSE <<>>
                          IN  /\ call' = info
                              /\ fired' = RightAutomation(squeeze)
                                   \o <<Command("rightSynth", <<note, "8n">>, triggerTime)>>
                              /\ lastRightTime' = triggerTime
                              /\ drawEvents' = ScheduleAll(drawEvents, es)
                              /\ rafPending' = RafAfterSchedule(es)
                              /\ Len(drawEvents') <= PendingCap
                              /\ tried' = [tried EXCEPT !["right"] = triggerTime]
                              /\ issued' = [issued EXCEPT !["right"] =
                                    IssuedAfter("right", triggerTime, lastRightTime, es)]
    /\ delivered' = <<>>
    /\ lastLeftTime' = OtherVoice(lastRightTime', lastLeftTime)
    /\ UNCHANGED <<isInitialized, currentGenre, inst, beatCallback, noteCallback,
                   lastLeftNoteIndex, loopCounter, transportVars, clockVars,
                   epoch, lastStep>>
    /\ UNCHANGED <<envVars, asyncVars, canvasVars, appVars, sketchVars>>

updateLeftHand(y, x, trigger, squeeze) ==
    /\ handCalls < MaxCalls
    /\ handCalls' = handCalls + 1
    /\ IF inst["leftSynth"] = Null \/ inst["leftEffect"] = Null \/ ~isInitialized
       THEN /\ call' = CallInfo("updateLeftHand", "left", y, trigger, -1, Null, 0,
                                lastLeftTime, FALSE)
            /\ fired' = <<>>
            /\ UNCHANGED <<lastLeftTime, lastLeftNoteIndex, drawVars, tried, issued>>
       ELSE IF ~trigger
       THEN /\ call' = CallInfo("updateLeftHand", "left", y, trigger, -1, Null, 0,
                                lastLeftTime, FALSE)
            /\ fired' = LeftAutomation(x, squeeze)
            /\ UNCHANGED <<lastLeftTime, lastLeftNoteIndex, drawVars, tried, issued>>
       ELSE LET scale == Scale("left", currentGenre)
                noteIndex == NoteIndex(y, Len(scale))
                note == NoteAt(scale, noteIndex)
                triggerTime == TriggerTime
                gate == Accepts(triggerTime, lastLeftTime)
                dur == IF IsPolySynth("leftSynth", inst["leftSynth"]) THEN "16n" ELSE "8n"
                info == CallInfo("updateLeftHand", "left", y, trigger, noteIndex, note,
                                 triggerTime, lastLeftTime, gate)
            IN  IF ~gate
                THEN /\ call' = info
                     /\ fired' = LeftAutomation(x, squeeze)
                     /\ tried' = [tried EXCEPT !["left"] = triggerTime]
                     /\ UNCHANGED issued
                     /\ UNCHANGED <<lastLeftTime, lastLeftNoteIndex, drawVars>>
                ELSE \E throws \in SynthThrows(note) :
                     IF throws
                     THEN /\ call' = [info EXCEPT !.threw = TRUE]
                          /\ fired' = LeftAutomation(x, squeeze)
                          /\ tried' = [tried EXCEPT !["left"] = triggerTime]
                          /\ lastLeftTime' = LastAfterThrow(triggerTime, lastLeftTime)
                          /\ UNCHANGED <<issued, lastLeftNoteIndex, drawVars>>
                     ELSE LET es == IF noteCallback
                                    THEN <<VisualEvent("RHYTHM", x, y, triggerTime)>>
                                    ELSE <<>>
                          IN  /\ call' = info
                              /\ fired' = LeftAutomation(x, squeeze)
                                   \o <<Command("leftSynth", <<note, dur>>, triggerTime)>>
                              /\ lastLeftTime' = triggerTime
                              /\ lastLeftNoteIndex' = noteIndex
                              /\ drawEvents' = ScheduleAll(drawEvents, es)
                              /\ rafPending' = RafAfterSchedule(es)
                              /\ Len(drawEvents') <= PendingCap
                              /\ tried' = [tried EXCEPT !["left"] = triggerTime]
                              /\ issued' = [issued EXCEPT !["left"] =
                                    IssuedAfter("left", triggerTime, lastLeftTime, es)]
    /\ delivered' = <<>>
    /\ lastRightTime' = OtherVoice(lastLeftTime', lastRightTime)
    /\ UNCHANGED <<isInitialized, currentGenre, inst, beatCallback, noteCallback,
                   loopCounter, transportVars, clockVars,
                   epoch, lastStep>>
    /\ UNCHANGED <<envVars, asyncVars, canvasVars, appVars, sketchVars>>

\* ------------------------------------------------------------ backing loop
If(c, s) == IF c THEN s ELSE <<>>
Trigger(field, args, t) == If(inst[field] # Null, <<Command(field, args, t)>>)

\* bass/drum commands of one step, in the order the callback issues them
JazzCommands(step, t, bassNote) ==
    If(step % 4 = 0, Trigger("bassSynth", <<bassNote, "4n">>, t)
                     \o Trigger("drumHiHat", <<"C5", "32n">>, t))
    \o If(step = 6 \/ step = 14, Trigger("drumHiHat", <<"C5", "32n", 500>>, t))

ElectronicCommands(step, t, bassNote) ==
    If(step % 2 = 0, Trigger("bassSynth", <<bassNote, "8n">>, t)
                     \o Trigger("drumHiHat",
                                <<"32n", IF step % 4 = 0 THEN 1000 ELSE 500>>, t))
    \o If(step = 0 \/ step = 8 \/ step = 10, Trigger("drumKick", <<"C1", "16n">>, t))
    \o If(step = 4 \/ step = 12, Trigger("drumSnare", <<"16n">>, t))

FunkCommands(step, t, openHat) ==
    (CASE step = 0 -> Trigger("bassSynth", <<"E2", "16n">>, t)
       [] step = 3 -> Trigger("bassSynth", <<"E2", "16n", 700>>, t)
       [] step = 6 -> Trigger("bassSynth", <<"E3", "16n", 900>>, t)
       [] step = 8 -> Trigger("bassSynth", <<"D3", "16n", 800>>, t)
       [] step = 11 -> Trigger("bassSynth", <<"E2", "16n", 600>>, t)
       [] step = 14 -> Trigger("bassSynth", <<"B2", "16n", 800>>, t)
       [] OTHER -> <<>>)
    \o (CASE step = 0 -> Trigger("drumKick", <<"C1", "16n">>, t)
          [] step = 7 -> Trigger("drumKick", <<"C1", "16n", 800>>, t)
          [] step = 10 -> Trigger("drumKick", <<"C1", "16n", 700>>, t)
          [] OTHER -> <<>>)
    \o (CASE step = 4 \/ step = 12 -> Trigger("drumSnare", <<"16n">>, t)
          [] step = 15 -> Trigger("drumSnare", <<"32n", 300>>, t)
          [] OTHER -> <<>>)
    \o (IF step = 14 /\ openHat
        THEN Trigger("drumHiHat", <<"8n", 800>>, t)
        ELSE Trigger("drumHiHat",
                     <<"32n", IF step % 4 = 0 THEN 1000
                              ELSE IF step % 2 = 0 THEN 600 ELSE 300>>, t))

\* visual events of one step, in the order the callback schedules them
JazzVisuals(step, t) ==
    If(step % 4 = 0 /\ noteCallback, <<VisualEvent("BASS", YDen \div 2, YDen, t)>>)

ElectronicVisuals(step, t) ==
    If(step % 2 = 0 /\ noteCallback, <<VisualEvent("BASS", YDen \div 2, YDen, t)>>)
    \o If((step = 0 \/ step = 8 \/ step = 10) /\ beatCallback, <<VisualEvent("KICK", 0, 0, t)>>)
    \o If((step = 4 \/ step = 12) /\ beatCallback, <<VisualEvent("SNARE", 0, 0, t)>>)

\* a funk pattern that flashes the kick on every quarter note
FunkVisualsOnQuarters(step, t) ==
    If(step % 4 = 0 /\ beatCallback, <<VisualEvent("KICK", 0, 0, t)>>)

FunkVisuals(step, t) ==
    If((step = 0 \/ step = 6 \/ step = 14) /\ noteCallback,
       <<VisualEvent("BASS", YDen \div 2, YDen, t)>>)
    \o If((step = 0 \/ step = 10) /\ beatCallback, <<VisualEvent("KICK", 0, 0, t)>>)
    \o If((step = 4 \/ step = 12) /\ beatCallback, <<VisualEvent("SNARE", 0, 0, t)>>)

\* Math.random(), in tenths
Randoms == {0, 9}

\* scale[Math.floor(Math.random() * scale.length)]
RandomNote(scale, r) == scale[(r * Len(scale)) \div 10 + 1]

\* the picks one tick of the callback makes
BassChoices(g, step) ==
    CASE g = "JAZZ" /\ step % 4 = 0 -> {RandomNote(JAZZ_BASS, r) : r \in Randoms}
      [] g = "ELECTRONIC" /\ step % 2 = 0 -> {RandomNote(ELECTRONIC_BASS, r) : r \in Randoms}
      [] OTHER -> {Null}
OpenHatChoices(g, step) == IF g = "FUNK" /\ step = 14 THEN {r > 7 : r \in Randoms} ELSE {FALSE}

\* step played by the callback: this.loopCounter % 16
StepOf(counter) == counter % 16

\* a counter that advances by two per tick
NextCounterSkipping(counter) == counter + 2

\* this.loopCounter++ at the end of a tick that played
NextCounter(counter) == counter + 1

\* a loop callback without the running check
ContextAssumedRunning == TRUE

\* the command of a tick that throws: none (0) on a sound backend, any one of the
\* tick's commands on a faulty one
FailPoints(cmds) == IF backendFaulty THEN 0 .. Len(cmds) ELSE {0}

\* the instrument whose trigger call precedes the Draw.schedule of a visual kind
InstrumentOf(kind) ==
    CASE kind = "BASS" -> "bassSynth"
      [] kind = "KICK" -> "drumKick"
      [] kind = "SNARE" -> "drumSnare"

\* the visual events of a tick scheduled before the throwing command: those whose
\* instrument was commanded
ScheduledBeforeThrow(es, done) ==
    SelectSeq(es, LAMBDA e : \E i \in 1 .. Len(done) : done[i].inst = InstrumentOf(e.kind))

\* the counter after a tick whose callback threw: this.loopCounter++ is the last
\* statement of the try block and is skipped
CounterAfterThrow(counter) == counter

\* Tone.context.state === 'running'
ContextRunning == ctxState = "running"

\* the Tone.Loop callback started by startBackingTrack, invoked by the transport
\* clock for the sixteenth tick tickIndex with that tick's (swung) time
backingLoop ==
    /\ LoopTickDue
    /\ tickIndex' = tickIndex + 1
    /\ LET time == TickTime(tickIndex) + SwingDelay(bpm, swing, tickIndex)
           step == StepOf(loopCounter)
           info == [NoCall EXCEPT !.op = "backingLoop", !.step = step, !.tick = tickIndex,
                                  !.time = time, !.prevStep = lastStep,
                                  !.queued = drawEvents]
       IN  IF inst["drumHiHat"] = Null \/ ~ContextRunning
           THEN /\ call' = info
                /\ fired' = <<>>
                /\ UNCHANGED <<loopCounter, drawVars, lastStep>>
           ELSE \E bassNote \in BassChoices(currentGenre, step),
                   openHat \in OpenHatChoices(currentGenre, step) :
                LET cmds == CASE currentGenre = "JAZZ" -> JazzCommands(step, time, bassNote)
                              [] currentGenre = "ELECTRONIC" ->
                                    ElectronicCommands(step, time, bassNote)
                              [] currentGenre = "FUNK" -> FunkCommands(step, time, openHat)
                    es == CASE currentGenre = "JAZZ" -> JazzVisuals(step, time)
                            [] currentGenre = "ELECTRONIC" -> ElectronicVisuals(step, time)
                            [] currentGenre = "FUNK" -> FunkVisuals(step, time)
                IN  \E failAt \in FailPoints(cmds) :
                    IF failAt = 0
                    THEN /\ fired' = cmds
                         /\ drawEvents' = ScheduleAll(drawEvents, es)
                         /\ rafPending' = RafAfterSchedule(es)
                         /\ Len(drawEvents') <= PendingCap
                         /\ loopCounter' = NextCounter(loopCounter)
                         /\ lastStep' = step
                         /\ call' = [info EXCEPT !.played = TRUE]
                    ELSE LET done == SubSeq(cmds, 1, failAt - 1)
                             esDone == ScheduledBeforeThrow(es, done)
                         IN  /\ fired' = done
                             /\ drawEvents' = ScheduleAll(drawEvents, esDone)
                             /\ rafPending' = RafAfterSchedule(esDone)
                             /\ Len(drawEvents') <= PendingCap
                             /\ loopCounter' = CounterAfterThrow(loopCounter)
                             /\ lastStep' = step
                             /\ call' = [info EXCEPT !.threw = TRUE]
    /\ delivered' = <<>>
    /\ UNCHANGED <<isInitialized, currentGenre, inst, beatCallback, noteCallback,
                   lastRightTime, lastLeftTime, lastLeftNoteIndex, bpm, swing,
                   transportState, transportOrigin, loops, clockVars, epoch, handCalls,
                   tried, issued>>
    /\ UNCHANGED <<envVars, asyncVars, canvasVars, appVars, sketchVars>>

\* ------------------------------------------------------ Tone.Draw draw loop
CallbackRegistered(e) == IF IsBeat(e) THEN beatCallback ELSE noteCallback

\* a drain that takes every queued event, whatever its time
DrawDueAlways(e, ct) == TRUE

\* the event at the head of the queue is due at context time ct
DrawDue(e, ct) == e.time - Anticipation <= ct

\* the event is still young enough to be invoked
DrawFresh(e, ct) == ct - e.time <= Expiration

\* _drawLoop at context time ct: shift every due event and invoke it unless it is
\* older than the expiration; a callback that throws ends the loop with the event
\* already shifted
RECURSIVE DrawRun(_, _, _)
DrawRun(q, out, ct) ==
    IF q = <<>> \/ ~DrawDue(Head(q), ct)
    THEN [rest |-> q, out |-> out, threw |-> FALSE]
    ELSE IF DrawFresh(Head(q), ct)
         THEN IF CallbackRegistered(Head(q))
              THEN DrawRun(Tail(q), Append(out, Head(q)), ct)
              ELSE [rest |-> Tail(q), out |-> out, threw |-> TRUE]
         ELSE DrawRun(Tail(q), out, ct)

\* the note callback of the JazzCanvas effect: every delivered note event (LEAD,
\* RHYTHM, BASS) pushes a burst of full life; RHYTHM bursts are 'left', the others
\* 'right'.  The beat callback only sets a flash level that colours the background
Burst(e) == [x |-> e.x, y |-> e.y, life |-> LifeDen,
             type |-> IF e.kind = "RHYTHM" THEN "left" ELSE "right"]
Bursts(es) ==
    LET notes == SelectSeq(es, LAMBDA e : ~IsBeat(e))
    IN  [i \in 1 .. Len(notes) |-> Burst(notes[i])]

drawLoop ==
    /\ rafPending
    /\ ~renderStalled
    /\ LET r == DrawRun(drawEvents, <<>>, currentTime)
       IN  /\ drawEvents' = r.rest
           /\ rafPending' = (~r.threw /\ r.rest # <<>>)
           /\ delivered' = r.out
           /\ noteTriggers' = noteTriggers \o Bursts(r.out)
           /\ call' = [NoCall EXCEPT !.op = "drawLoop", !.threw = r.threw,
                                     !.time = currentTime, !.queued = drawEvents,
                                     !.prevBursts = noteTriggers]
    /\ fired' = <<>>
    /\ UNCHANGED <<engineVars, transportVars, clockVars, epoch, handCalls, tried, issued,
                   lastStep>>
    /\ UNCHANGED <<envVars, asyncVars, canvasVars, appVars, handState, frames, width, height,
                   sketchGenre, particles, agents, smoothedAudio, frameCount, fed>>

\* ------------------------------------------------------------ environment
\* the audio clock advances one quantum; a due loop tick is invoked first
advanceTime ==
    /\ ctxState = "running"
    /\ now < MaxTime
    /\ ~LoopTickDue
    /\ now' = now + 1
    /\ call' = [NoCall EXCEPT !.op = "advanceTime"]
    /\ fired' = <<>>
    /\ delivered' = <<>>
    /\ UNCHANGED <<engineVars, transportVars, ctxState, drawVars, epoch, handCalls, tried,
                   issued, lastStep>>
    /\ UNCHANGED <<envVars, asyncVars, canvasVars, appVars, sketchVars>>

\* the audio clock runs on to the next sixteenth boundary of the transport
advanceToNextTick ==
    /\ ctxState = "running"
    /\ loops > 0 /\ transportState = "started"
    /\ TickTime(tickIndex) <= MaxLoopTime
    /\ ~LoopTickDue
    /\ now' = TickTime(tickIndex)
    /\ call' = [NoCall EXCEPT !.op = "advanceToNextTick"]
    /\ fired' = <<>>
    /\ delivered' = <<>>
    /\ UNCHANGED <<engineVars, transportVars, ctxState, drawVars, epoch, handCalls, tried,
                   issued, lastStep>>
    /\ UNCHANGED <<envVars, asyncVars, canvasVars, appVars, sketchVars>>

contextSuspend ==
    /\ isInitialized
    /\ tickIndex - loopCounter < MaxSkips
    /\ ctxState = "running"
    /\ ctxState' = "suspended"
    /\ call' = [NoCall EXCEPT !.op = "contextSuspend"]
    /\ fired' = <<>>
    /\ delivered' = <<>>
    /\ UNCHANGED <<engineVars, transportVars, now, drawVars, epoch, handCalls, tried,
                   issued, lastStep>>
    /\ UNCHANGED <<envVars, asyncVars, canvasVars, appVars, sketchVars>>

contextResume ==
    /\ isInitialized
    /\ ctxState = "suspended"
    /\ ctxState' = "running"
    /\ call' = [NoCall EXCEPT !.op = "contextResume"]
    /\ fired' = <<>>
    /\ delivered' = <<>>
    /\ UNCHANGED <<engineVars, transportVars, now, drawVars, epoch, handCalls, tried,
                   issued, lastStep>>
    /\ UNCHANGED <<envVars, asyncVars, canvasVars, appVars, sketchVars>>

\* the browser stops running animation frames (a hidden or throttled tab) while
\* the audio clock and the transport keep going
renderStall ==
    /\ isInitialized
    /\ ~renderStalled
    /\ renderStalled' = TRUE
    /\ call' = [NoCall EXCEPT !.op = "renderStall"]
    /\ fired' = <<>>
    /\ delivered' = <<>>
    /\ UNCHANGED <<engineVars, transportVars, clockVars, drawVars, epoch, handCalls,
                   tried, issued, lastStep, backendFaulty, asyncVars, canvasVars, appVars,
                   sketchVars>>

\* animation frames come back
renderResume ==
    /\ renderStalled
    /\ renderStalled' = FALSE
    /\ call' = [NoCall EXCEPT !.op = "renderResume"]
    /\ fired' = <<>>
    /\ delivered' = <<>>
    /\ UNCHANGED <<engineVars, transportVars, clockVars, drawVars, epoch, handCalls,
                   tried, issued, lastStep, backendFaulty, asyncVars, canvasVars, appVars,
                   sketchVars>>

\* the audio backend becomes transiently unable to take trigger calls
backendFault ==
    /\ isInitialized
    /\ ~backendFaulty
    /\ backendFaulty' = TRUE
    /\ call' = [NoCall EXCEPT !.op = "backendFault"]
    /\ fired' = <<>>
    /\ delivered' = <<>>
    /\ UNCHANGED <<engineVars, transportVars, clockVars, drawVars, epoch, handCalls,
                   tried, issued, lastStep, renderStalled, asyncVars, canvasVars, appVars,
                   sketchVars>>

\* the backend takes trigger calls again
backendRecover ==
    /\ backendFaulty
    /\ backendFaulty' = FALSE
    /\ call' = [NoCall EXCEPT !.op = "backendRecover"]
    /\ fired' = <<>>
    /\ delivered' = <<>>
    /\ UNCHANGED <<engineVars, transportVars, clockVars, drawVars, epoch, handCalls,
                   tried, issued, lastStep, renderStalled, asyncVars, canvasVars, appVars,
                   sketchVars>>

\* -------------------------------------------------------------------- App
\* a start overlay that is also offered after a failure
StartShownAlso == appState \in {"IDLE", "ERROR"}

\* the start overlay with the "Start Session" button is rendered only in IDLE
StartShown == appState = "IDLE"

\* startExperience up to its await: setAppState(LOADING), audioEngine.initialize()
\* is pending
startExperience ==
    /\ StartShown
    /\ appState' = "LOADING"
    /\ call' = [NoCall EXCEPT !.op = "startExperience"]
    /\ fired' = <<>>
    /\ delivered' = <<>>
    /\ UNCHANGED <<engineVars, transportVars, clockVars, drawVars, epoch, handCalls,
                   tried, issued, lastStep, envVars, asyncVars, canvasVars, genreProp, sketchVars>>

\* initialize() fulfils (at once when the engine is already initialized):
\* setAppState(RUNNING)
startFulfilled ==
    /\ appState = "LOADING"
    /\ isInitialized' = TRUE
    /\ ctxState' = IF isInitialized THEN ctxState ELSE "running"
    /\ masterChains' = IF isInitialized THEN masterChains ELSE masterChains + 1
    /\ appState' = "RUNNING"
    /\ call' = [NoCall EXCEPT !.op = "startFulfilled"]
    /\ fired' = <<>>
    /\ delivered' = <<>>
    /\ UNCHANGED <<currentGenre, inst, beatCallback, noteCallback, lastRightTime,
                   lastLeftTime, lastLeftNoteIndex, loopCounter, transportVars, now,
                   drawVars, epoch, handCalls, tried, issued, lastStep, envVars, pendingCalls,
                   canvasVars, genreProp, sketchVars>>

\* Tone.start() rejects inside initialize(): the catch sets ERROR, the engine stays
\* uninitialized
startRejected ==
    /\ appState = "LOADING"
    /\ ~isInitialized
    /\ appState' = "ERROR"
    /\ call' = [NoCall EXCEPT !.op = "startRejected"]
    /\ fired' = <<>>
    /\ delivered' = <<>>
    /\ UNCHANGED <<engineVars, transportVars, clockVars, drawVars, epoch, handCalls,
                   tried, issued, lastStep, envVars, asyncVars, canvasVars, genreProp, sketchVars>>

\* ------------------------------------------------------------- JazzCanvas
\* the JazzCanvas effect once the app is RUNNING: it registers the two callbacks,
\* starts the hand tracker and creates the p5 sketch
runEffect ==
    /\ appState = "RUNNING"
    /\ handTracker \in {"none", "stopped"}
    /\ onBeat
    /\ onNoteTriggered
    /\ handTracker' = "starting"
    /\ p5Instance' = "mounted"
    /\ teardown' = <<>>
    /\ sketchGenre' = genreProp
    /\ particles' = NoParticles
    /\ agents' = <<>>
    /\ smoothedAudio' = 0
    /\ frameCount' = 0
    /\ fed' = NothingFed
    /\ call' = [NoCall EXCEPT !.op = "runEffect"]
    /\ fired' = <<>>
    /\ delivered' = <<>>
    /\ UNCHANGED <<isInitialized, currentGenre, inst, lastRightTime,
                   lastLeftTime, lastLeftNoteIndex, loopCounter, transportVars, clockVars,
                   drawVars, epoch, handCalls, tried, issued, lastStep, envVars, asyncVars, appVars,
                   handState, frames, width, height, noteTriggers>>

\* the effect's cleanup: handTrackerRef.current?.stop(); p5InstanceRef.current?.remove()
effectCleanup ==
    /\ handTracker \in {"starting", "running", "failed"}
    /\ handTracker' = "stopped"
    /\ p5Instance' = "removed"
    /\ teardown' = <<"gestureSource", "agentPopulation">>
    /\ call' = [NoCall EXCEPT !.op = "effectCleanup", !.queued = drawEvents,
                               !.prevLoops = loops]
    /\ fired' = <<>>
    /\ delivered' = <<>>
    /\ UNCHANGED <<engineVars, transportVars, clockVars, drawVars, epoch, handCalls,
                   tried, issued, lastStep, envVars, asyncVars, appVars,
                   sketchVars>>

\* handTracker.start(video) fulfils: .then(() => setDebugMsg(""))
trackerStarted ==
    /\ handTracker = "starting"
    /\ handTracker' = "running"
    /\ call' = [NoCall EXCEPT !.op = "trackerStarted"]
    /\ fired' = <<>>
    /\ delivered' = <<>>
    /\ UNCHANGED <<engineVars, transportVars, clockVars, drawVars, epoch, handCalls,
                   tried, issued, lastStep, envVars, asyncVars, p5Instance, teardown, appVars,
                   sketchVars>>

\* handTracker.start(video) rejects: .catch(err => setAppState(AppState.ERROR))
trackerFailed ==
    /\ handTracker = "starting"
    /\ handTracker' = "failed"
    /\ appState' = "ERROR"
    /\ call' = [NoCall EXCEPT !.op = "trackerFailed"]
    /\ fired' = <<>>
    /\ delivered' = <<>>
    /\ UNCHANGED <<engineVars, transportVars, clockVars, drawVars, epoch, handCalls,
                   tried, issued, lastStep, envVars, asyncVars, p5Instance, teardown, genreProp,
                   sketchVars>>

\* ---------------------------------------------------------- hand tracking
\* landmarks[8].x of a detected hand, before the horizontal mirror
TipXs == {0}

\* one detected hand of results.multiHandLandmarks / multiHandedness: its label,
\* its index fingertip and the squeeze computed from its openness
DetectedHands == [label : {"Left", "Right"}, x : TipXs, y : Ys, squeeze : Squeezes]

\* results.multiHandLandmarks: no hand, one hand or two
Results == {<<>>} \cup {<<h>> : h \in DetectedHands}
               \cup {<<h1, h2>> : h1 \in DetectedHands, h2 \in DetectedHands}

\* const coords = { x: 1 - tip.x, y: tip.y }
Coords(h) == [x |-> YDen - h.x, y |-> h.y, squeeze |-> h.squeeze]

\* the loop over the detected hands: each hand's coordinates go to the side its
\* label names (the later hand when a label repeats)
RECURSIVE TakeHands(_, _)
TakeHands(results, acc) ==
    IF results = <<>> THEN acc
    ELSE TakeHands(Tail(results),
            IF Head(results).label = "Right"
            THEN [acc EXCEPT !.right = <<Coords(Head(results))>>]
            ELSE [acc EXCEPT !.left = <<Coords(Head(results))>>])

\* a snapshot that keeps a hand of the frame before when this frame does not report it
SnapshotMerging(results) == TakeHands(results, handState)

\* let left = null, right = null; ...: the snapshot holds the hands of this frame only
Snapshot(results) == TakeHands(results, NoHands)

\* the hand moved past the dead zone since its previous sample (there is one)
TriggerWhenMoved(hand, prev) ==
    /\ prev # <<>>
    /\ ((hand.x - prev[1].x) * (hand.x - prev[1].x)
          + (hand.y - prev[1].y) * (hand.y - prev[1].y))
          * 1000 * 1000 > DeadZonePermille * DeadZonePermille * YDen * YDen

\* the trigger argument onHandResults passes for a present hand: the literal true
TriggerArg(hand, prev) == TRUE

\* what one hand update does to the engine, as a function of the draw queue it finds
\* (the right hand's update runs first, the left hand's sees its effects)
HandUpdate(voice, hand, trigger, q, raf, throws) ==
    LET synth == IF voice = "right" THEN "rightSynth" ELSE "leftSynth"
        last == IF voice = "right" THEN lastRightTime ELSE lastLeftTime
        absent == \/ inst[synth] = Null
                  \/ voice = "left" /\ inst["leftEffect"] = Null
                  \/ ~isInitialized
        auto == IF voice = "right" THEN RightAutomation(hand.squeeze)
                ELSE LeftAutomation(hand.x, hand.squeeze)
        scale == Scale(voice, currentGenre)
        noteIndex == NoteIndex(hand.y, Len(scale))
        note == NoteAt(scale, noteIndex)
        triggerTime == TriggerTime
        gate == Accepts(triggerTime, last)
        dur == IF voice = "left" /\ IsPolySynth("leftSynth", inst["leftSynth"])
               THEN "16n" ELSE "8n"
        es == IF noteCallback
              THEN <<VisualEvent(IF voice = "right" THEN "LEAD" ELSE "RHYTHM",
                                 hand.x, hand.y, triggerTime)>>
              ELSE <<>>
        same == [last |-> last, index |-> lastLeftNoteIndex, q |-> q, raf |-> raf,
                 fired |-> <<>>, tried |-> tried[voice], issued |-> issued[voice],
                 threw |-> FALSE]
    IN  IF absent THEN same
        ELSE IF ~trigger THEN [same EXCEPT !.fired = auto]
        ELSE IF ~gate THEN [same EXCEPT !.fired = auto, !.tried = triggerTime]
        ELSE IF throws /\ TRUE \in SynthThrows(note)
        THEN [same EXCEPT !.fired = auto, !.tried = triggerTime,
                          !.last = LastAfterThrow(triggerTime, last), !.threw = TRUE]
        ELSE [last |-> triggerTime, index |-> noteIndex,
              q |-> ScheduleAll(q, es), raf |-> raf \/ (es # <<>> /\ q = <<>>),
              fired |-> auto \o <<Command(synth, <<note, dur>>, triggerTime)>>,
              tried |-> triggerTime,
              issued |-> IssuedAfter(voice, triggerTime, last, es),
              threw |-> FALSE]

\* onHandResults(results): the hand-tracking callback.  It reads the detected hands,
\* calls updateRightHand and updateLeftHand for the hands present, and replaces the
\* shared hand snapshot
onHandResults(results) ==
    /\ handTracker = "running"
    /\ frames < MaxFrames
    /\ frames' = frames + 1
    /\ LET hands == Snapshot(results)
           rTrig == hands.right # <<>> /\ TriggerArg(hands.right[1], handState.right)
           lTrig == hands.left # <<>> /\ TriggerArg(hands.left[1], handState.left)
           idle == [last |-> 0, index |-> lastLeftNoteIndex, q |-> drawEvents,
                    raf |-> rafPending, fired |-> <<>>, tried |-> 0,
                    issued |-> NoneIssued, threw |-> FALSE]
           made == (IF hands.right # <<>>
                    THEN <<[op |-> "updateRightHand", hand |-> hands.right[1],
                            trigger |-> rTrig]>>
                    ELSE <<>>)
                   \o (IF hands.left # <<>>
                       THEN <<[op |-> "updateLeftHand", hand |-> hands.left[1],
                               trigger |-> lTrig]>>
                       ELSE <<>>)
       IN  \E rThrows \in BOOLEAN, lThrows \in BOOLEAN :
           \E r \in {IF hands.right # <<>>
                     THEN HandUpdate("right", hands.right[1], rTrig, drawEvents,
                                     rafPending, rThrows)
                     ELSE [idle EXCEPT !.last = lastRightTime, !.tried = tried["right"],
                                       !.issued = issued["right"]]} :
           \E l \in {IF hands.left # <<>>
                     THEN HandUpdate("left", hands.left[1], lTrig, r.q, r.raf, lThrows)
                     ELSE [idle EXCEPT !.last = lastLeftTime, !.tried = tried["left"],
                                       !.issued = issued["left"], !.q = r.q,
                                       !.raf = r.raf]} :
               /\ rThrows = r.threw
               /\ lThrows = l.threw
               /\ lastRightTime' = r.last
               /\ lastLeftTime' = l.last
               /\ lastLeftNoteIndex' = l.index
               /\ drawEvents' = l.q
               /\ rafPending' = l.raf
               /\ Len(drawEvents') <= PendingCap
               /\ fired' = r.fired \o l.fired
               /\ tried' = [right |-> r.tried, left |-> l.tried]
               /\ issued' = [right |-> r.issued, left |-> l.issued]
               /\ handCalls' = handCalls + Len(made)
               /\ handState' = hands
               /\ call' = [NoCall EXCEPT !.op = "onHandResults", !.calls = made,
                                         !.results = results,
                                         !.prevHands = handState, !.hands = hands,
                                         !.queued = drawEvents, !.time = now,
                                         !.threw = r.threw \/ l.threw]
    /\ delivered' = <<>>
    /\ UNCHANGED <<isInitialized, currentGenre, inst, beatCallback, noteCallback,
                   loopCounter, transportVars, clockVars, epoch, lastStep, envVars, asyncVars,
                   canvasVars, appVars, width, height, sketchGenre, particles, agents,
                   smoothedAudio, noteTriggers, frameCount, fed>>

\* ------------------------------------------------------------- the sketch
Abs(a) == IF a < 0 THEN -a ELSE a
Sign(a) == IF a > 0 THEN 1 ELSE IF a < 0 THEN -1 ELSE 0
Px(n) == n * PxDen
Vec(x, y) == [x |-> x, y |-> y]
Plus(a, b) == Vec(a.x + b.x, a.y + b.y)

\* the meter readings of a session, in decibels, and its window sizes, in pixels
Levels == {Silent, -6, 0}
WindowSizes == {[w |-> 6, h |-> 4], [w |-> 200, h |-> 4], [w |-> 300, h |-> 4]}

\* initParticles: the population of each genre and its agent class
PopulationOf(g) == CASE g = "JAZZ" -> 300 [] g = "FUNK" -> 250 [] g = "ELECTRONIC" -> 60
ClassOf(g) ==
    CASE g = "JAZZ" -> "LiquidParticle"
      [] g = "FUNK" -> "VortexParticle"
      [] g = "ELECTRONIC" -> "NeuralNode"

\* the agents followed: every agent of the flow-field and vortex populations moves
\* by itself, so one is followed; graph-mode nodes are followed SampleSize at a time
TrackedOf(class) == IF class = "NeuralNode" THEN SampleSize ELSE 1

\* the constructors.  LiquidParticle: a random position inside the canvas, no
\* velocity, baseMaxSpeed = random(2, 5)
LiquidSpawns(w, h) ==
    {[pos |-> pos, vel |-> Vec(0, 0), z |-> 0, base |-> Px(2), maxSpeed |-> Px(2)] :
        pos \in {Vec(0, 0), Vec(Px(w) - 1, Px(h) - 1)}}
\* VortexParticle: z = random(100, 2000)
VortexSpawns ==
    {[pos |-> Vec(0, 0), vel |-> Vec(0, 0), z |-> z, base |-> 0, maxSpeed |-> 0] :
        z \in {100, 1999}}
\* NeuralNode: a random position inside the canvas, velocity random2D().mult(2); the
\* nodes followed sit on one horizontal line and move along it
NodeSpawns(w, h) ==
    {[pos |-> Vec(Px(x), 0), vel |-> Vec(vx, 0), z |-> 0, base |-> 0, maxSpeed |-> 0] :
        x \in {x \in {0, 180} : x < w}, vx \in {Px(2), -Px(2)}}
Spawns(class, w, h) ==
    CASE class = "LiquidParticle" -> LiquidSpawns(w, h)
      [] class = "VortexParticle" -> VortexSpawns
      [] class = "NeuralNode" -> NodeSpawns(w, h)

\* an initParticles that appends to the population it finds
KeptPopulation == particles.count

\* particles = []
ClearedPopulation == 0

\* Tone.dbToGain(db) = 10 ^ (db / 20), for the readings above
dbToGain(db) ==
    CASE db = 0 -> EnergyDen
      [] db = -6 -> Round(501 * EnergyDen, 1000)
      [] OTHER -> 0

\* getEnergy(): 0 without a meter, else the meter's decibels as a linear gain
getEnergy(raw) == IF isInitialized THEN dbToGain(raw) ELSE 0

\* a smoothing that overshoots its target
SmoothOvershooting(s, level) == s + Round(150 * (level - s), 100)

\* smoothedAudio = p.lerp(smoothedAudio, rawEnergy, 0.15)
Smooth(s, level) == s + Round(15 * (level - s), 100)

\* LiquidParticle: maxSpeed = baseMaxSpeed * (1 + audio * 3)
MaxSpeedOf(base, audio) == Round(base * (EnergyDen + 3 * audio), EnergyDen)

\* the flow force: a direction taken from the noise field, times 0.5 + audio * 2
Directions == {Vec(1, 0), Vec(-1, 0), Vec(0, 1), Vec(0, -1)}
FlowOf(dir, audio) ==
    LET m == Round(PxDen * (EnergyDen + 4 * audio), 2 * EnergyDen)
    IN  Vec(dir.x * m, dir.y * m)

\* the hand vectors of a draw tick: the snapshot's coordinates scaled to the canvas
HandVec(hand) ==
    IF hand = <<>> THEN <<>>
    ELSE <<Vec((hand[1].x * Px(width)) \div YDen, (hand[1].y * Px(height)) \div YDen)>>

\* applyHandForce: half a pixel towards a hand nearer than 400 pixels, each
\* component rounded to the grid
PullAxis(c, o) == IF c # 0 /\ 3 * c * c >= o * o THEN Sign(c) * Round(PxDen, 2) ELSE 0
HandPull(pos, hVec) ==
    IF hVec = <<>> THEN Vec(0, 0)
    ELSE LET dx == hVec[1].x - pos.x
             dy == hVec[1].y - pos.y
         IN  IF dx * dx + dy * dy < Px(400) * Px(400)
             THEN Vec(PullAxis(dx, dy), PullAxis(dy, dx))
             ELSE Vec(0, 0)

\* p5.Vector.limit: a vector longer than m is scaled to length m (rounded towards 0)
Shrink(c, m, n) ==
    Sign(c) * (CHOOSE k \in 0 .. m :
                  k * k * n <= c * c * m * m /\ (k + 1) * (k + 1) * n > c * c * m * m)
Limit(v, m) ==
    LET n == v.x * v.x + v.y * v.y
    IN  IF n <= m * m THEN v ELSE Vec(Shrink(v.x, m, n), Shrink(v.y, m, n))

\* a wrap that leaves the coordinate where integration put it
WrapAxisNever(c, bound) == c

\* if (pos > bound) pos = 0; if (pos < 0) pos = bound
WrapAxis(c, bound) == IF c > bound THEN 0 ELSE IF c < 0 THEN bound ELSE c

\* this.pos.add(this.vel) and the wrap, for the limited velocity v
Placed(a, v, m) ==
    [a EXCEPT !.vel = v, !.maxSpeed = m,
              !.pos = Vec(WrapAxis(a.pos.x + v.x, Px(width)),
                          WrapAxis(a.pos.y + v.y, Px(height)))]

\* LiquidParticle.update: u is the velocity with the tick's acceleration (flow and
\* hand pulls) added, m the tick's maxSpeed
LiquidUpdate(a, dir, hands, audio) ==
    CHOOSE r \in {Placed(a, Limit(u, m), m) :
                    u \in {Plus(a.vel,
                                Plus(FlowOf(dir, audio),
                                     Plus(HandPull(a.pos, hands.left),
                                          HandPull(a.pos, hands.right))))},
                    m \in {MaxSpeedOf(a.base, audio)}} : TRUE

\* VortexParticle.update: this.z -= 15 + audio * 100; if (this.z < 1) respawn
DepthStep(audio) == 15 + Round(100 * audio, EnergyDen)
\* a respawn that waits until the agent is well behind the camera
RespawnsLate(z) == z < -100
Respawns(z) == z < 1
\* respawn: z = random(1000, 2000)
FarDepths == {1000, 1999}
VortexUpdate(a, far, audio) ==
    LET z == a.z - DepthStep(audio)
    IN  [a EXCEPT !.z = IF Respawns(z) THEN far ELSE z]

\* NeuralNode.update: move, reverse the velocity on an axis whose coordinate is
\* outside the canvas, and on a loud level sometimes jump by up to 10 pixels
Loud(audio) == audio * 10 > 6 * EnergyDen
Glitches(audio) == IF Loud(audio) THEN {0, Px(10), -Px(10)} ELSE {0}
NodeUpdate(a, glitch, audio) ==
    LET q == Plus(a.pos, a.vel)
        vx == IF q.x < 0 \/ q.x > Px(width) THEN -a.vel.x ELSE a.vel.x
        vy == IF q.y < 0 \/ q.y > Px(height) THEN -a.vel.y ELSE a.vel.y
    IN  [a EXCEPT !.pos = Vec(q.x + glitch, q.y), !.vel = Vec(vx, vy)]

\* drawElectronicMode: connectDist = 180 + audio * 100; p.dist of two nodes on one
\* horizontal line
\* horizontal line; the threshold is kept as an exact fraction
ConnectDist(audio) == [num |-> Px(180) * EnergyDen + Px(100) * audio, den |-> EnergyDen]
Dist(a, b) == Abs(a.x - b.x)
\* a test that also connects a pair exactly at the threshold
ConnectsUpTo(d, cd) == d * cd.den <= cd.num
\* if (d < connectDist)
Connects(d, cd) == d * cd.den < cd.num
\* p.map(v, a, b, c, d), as an exact fraction
Map(v, a, b, c, d) == [num |-> c * (b - a) + (d - c) * (v - a), den |-> b - a]
\* alpha = p.map(d, 0, connectDist, 100, 0); one p.line per connected pair
Edge(i, j, d, cd) == [i |-> i, j |-> j, alpha |-> Map(d * cd.den, 0, cd.num, 100, 0)]

\* the edges drawn from node i: to every later node j within the threshold
EdgesFrom(nodes, i, cd) ==
    LET peers == SelectSeq([k \in 1 .. Len(nodes) - i |-> i + k],
                           LAMBDA j : Connects(Dist(nodes[i].pos, nodes[j].pos), cd))
    IN  [k \in 1 .. Len(peers) |->
            Edge(i, peers[k], Dist(nodes[i].pos, nodes[peers[k]].pos), cd)]

\* the loop of drawElectronicMode: node i's edges are drawn, then node i is updated
RECURSIVE ElectronicPass(_, _, _, _, _)
ElectronicPass(nodes, i, edges, ins, audio) ==
    IF i > Len(nodes) THEN [agents |-> nodes, edges |-> edges]
    ELSE ElectronicPass([nodes EXCEPT ![i] = NodeUpdate(nodes[i], ins[i].glitch, audio)],
                        i + 1, edges \o EdgesFrom(nodes, i, ConnectDist(audio)), ins,
                        audio)

\* what a draw tick takes from outside for one agent: the noise direction, the
\* respawn depth, the glitch jump
AgentInputs(class, audio) ==
    CASE class = "LiquidParticle" -> [dir : Directions, far : {0}, glitch : {0}]
      [] class = "VortexParticle" -> [dir : {Vec(0, 0)}, far : FarDepths, glitch : {0}]
      [] class = "NeuralNode" -> [dir : {Vec(0, 0)}, far : {0}, glitch : Glitches(audio)]
      [] OTHER -> [dir : {Vec(0, 0)}, far : {0}, glitch : {0}]

\* the mode-specific pass over the population
ModePass(ins, hands, audio) ==
    CASE particles.class = "LiquidParticle" ->
             [agents |-> [i \in 1 .. Len(agents) |->
                             LiquidUpdate(agents[i], ins[i].dir, hands, audio)],
              edges |-> <<>>]
      [] particles.class = "VortexParticle" ->
             [agents |-> [i \in 1 .. Len(agents) |->
                             VortexUpdate(agents[i], ins[i].far, audio)],
              edges |-> <<>>]
      [] particles.class = "NeuralNode" -> ElectronicPass(agents, 1, <<>>, ins, audio)
      [] OTHER -> [agents |-> agents, edges |-> <<>>]

\* the note bursts of a draw tick: t.life -= 0.04; if (t.life <= 0) splice
BurstFade == Round(4 * LifeDen, 100)
\* a loop over the bursts that fades them and never splices
FadeWithoutSplice(bursts) ==
    [i \in 1 .. Len(bursts) |-> [bursts[i] EXCEPT !.life = @ - BurstFade]]
FadeBursts(bursts) ==
    SelectSeq([i \in 1 .. Len(bursts) |-> [bursts[i] EXCEPT !.life = @ - BurstFade]],
              LAMBDA b : b.life > 0)

\* initParticles: the population is rebuilt for the sketch's genre
initParticles(w, h) ==
    /\ particles' = [class |-> ClassOf(sketchGenre),
                     count |-> ClearedPopulation + PopulationOf(sketchGenre)]
    /\ agents' \in [1 .. TrackedOf(ClassOf(sketchGenre)) ->
                       Spawns(ClassOf(sketchGenre), w, h)]

\* p.setup: createCanvas(windowWidth, windowHeight), initParticles()
setup(size) ==
    /\ p5Instance = "mounted"
    /\ p5Instance' = "looping"
    /\ width' = size.w
    /\ height' = size.h
    /\ initParticles(size.w, size.h)
    /\ call' = [NoCall EXCEPT !.op = "setup"]
    /\ fired' = <<>>
    /\ delivered' = <<>>
    /\ UNCHANGED <<engineVars, transportVars, clockVars, drawVars, epoch, handCalls,
                   tried, issued, lastStep, envVars, asyncVars, handTracker, teardown, appVars,
                   handState, frames, sketchGenre, smoothedAudio, noteTriggers,
                   frameCount, fed>>

\* p.windowResized: resizeCanvas(windowWidth, windowHeight), initParticles()
windowResized(size) ==
    /\ p5Instance = "looping"
    /\ width' = size.w
    /\ height' = size.h
    /\ initParticles(size.w, size.h)
    /\ call' = [NoCall EXCEPT !.op = "windowResized"]
    /\ fired' = <<>>
    /\ delivered' = <<>>
    /\ UNCHANGED <<engineVars, transportVars, clockVars, drawVars, epoch, handCalls,
                   tried, issued, lastStep, envVars, asyncVars, canvasVars, appVars,
                   handState, frames, sketchGenre, smoothedAudio, noteTriggers,
                   frameCount, fed>>

\* the random inputs a draw tick at meter level raw can take, one record an agent
InputsOf(raw) ==
    [1 .. Len(agents) ->
        AgentInputs(particles.class, Smooth(smoothedAudio, getEnergy(raw)))]

\* p.draw: the level is read and smoothed, the hand snapshot is read, the note
\* bursts fade, the population is updated and drawn (frameCount is counted up to
\* MaxDraws)
draw(raw, ins) ==
    /\ p5Instance = "looping"
    /\ ~renderStalled
    /\ LET level == getEnergy(raw)
           audio == Smooth(smoothedAudio, level)
           hands == [left |-> HandVec(handState.left), right |-> HandVec(handState.right)]
       IN  \E pass \in {ModePass(ins, hands, audio)} :
               /\ smoothedAudio' = audio
               /\ agents' = pass.agents
               /\ noteTriggers' = FadeBursts(noteTriggers)
               /\ fed' = [last |-> raw, rising |-> fed.rising /\ raw >= fed.last]
               /\ call' = [NoCall EXCEPT !.op = "draw", !.raw = level,
                                         !.prevSmoothed = smoothedAudio,
                                         !.prevAgents = agents, !.edges = pass.edges,
                                         !.hands = hands, !.prevHands = handState,
                                         !.prevBursts = noteTriggers]
    /\ frameCount' = IF frameCount < MaxDraws THEN frameCount + 1 ELSE frameCount
    /\ fired' = <<>>
    /\ delivered' = <<>>
    /\ UNCHANGED <<engineVars, transportVars, clockVars, drawVars, epoch, handCalls,
                   tried, issued, lastStep, envVars, asyncVars, canvasVars, appVars,
                   handState, frames, width, height, sketchGenre, particles>>

\* the parent renders JazzCanvas with another genre
selectGenre(g) ==
    /\ appState = "RUNNING"
    /\ g # genreProp
    /\ genreProp' = g
    /\ call' = [NoCall EXCEPT !.op = "selectGenre"]
    /\ fired' = <<>>
    /\ delivered' = <<>>
    /\ UNCHANGED <<engineVars, transportVars, clockVars, drawVars, epoch, handCalls,
                   tried, issued, lastStep, envVars, asyncVars, canvasVars, appState, sketchVars>>

\* a running session: genre loads, gesture updates, the backing loop and the render
\* loop, on a clock that advances quantum by quantum
Next ==
    \/ initialize
    \/ connectAudioEvents
    \/ \E genre \in Genres : loadGenre(genre)
    \/ \E y \in Ys, x \in Xs, trigger \in BOOLEAN, squeeze \in Squeezes :
          updateRightHand(y, x, trigger, squeeze)
    \/ \E y \in Ys, x \in Xs, trigger \in BOOLEAN, squeeze \in Squeezes :
          updateLeftHand(y, x, trigger, squeeze)
    \/ backingLoop
    \/ drawLoop
    \/ (now < MaxGestureTime /\ advanceTime)

Spec == Init /\ [][Next]_vars

\* the backing track over more than a bar, with the audio context suspending and
\* resuming between sixteenth ticks
NextBacking ==
    \/ initialize
    \/ connectAudioEvents
    \/ \E genre \in Genres : loadGenre(genre)
    \/ backingLoop
    \/ drawLoop
    \/ advanceToNextTick
    \/ contextSuspend
    \/ contextResume

SpecBacking == Init /\ [][NextBacking]_vars

\* session start and stop: genre loads and stop against the render loop, on a clock
\* that runs long enough for queued visual events to expire
NextLifecycle ==
    \/ initialize
    \/ connectAudioEvents
    \/ \E genre \in Genres : loadGenre(genre)
    \/ stop
    \/ backingLoop
    \/ drawLoop
    \/ advanceTime

SpecLifecycle == Init /\ [][NextLifecycle]_vars


\* a mounted canvas: the effect and its cleanup around genre loads, the backing loop
\* and the render loop
NextCanvas ==
    \/ initialize
    \/ startExperience
    \/ startFulfilled
    \/ runEffect
    \/ effectCleanup
    \/ \E genre \in Genres : loadGenre(genre)
    \/ stop
    \/ backingLoop
    \/ drawLoop
    \/ advanceTime

SpecCanvas == Init /\ [][NextCanvas]_vars

\* the backing track against a render loop that stalls and comes back
NextStall ==
    \/ initialize
    \/ connectAudioEvents
    \/ \E genre \in Genres : loadGenre(genre)
    \/ backingLoop
    \/ drawLoop
    \/ advanceToNextTick
    \/ renderStall
    \/ renderResume

SpecStall == Init /\ [][NextStall]_vars

\* the backing track on a backend whose trigger calls may throw
NextFault ==
    \/ initialize
    \/ connectAudioEvents
    \/ \E genre \in Genres : loadGenre(genre)
    \/ backingLoop
    \/ drawLoop
    \/ (now < MaxFaultTime /\ advanceToNextTick)
    \/ backendFault
    \/ backendRecover

SpecFault == Init /\ [][NextFault]_vars

\* a session from the start overlay on: the audio backend and the hand tracker start
\* or fail, the running app loads genres and plays
NextApp ==
    \/ startExperience
    \/ startFulfilled
    \/ startRejected
    \/ runEffect
    \/ trackerStarted
    \/ trackerFailed
    \/ effectCleanup
    \/ (appState = "RUNNING" /\ \E g \in Genres : loadGenre(g))
    \/ backingLoop
    \/ drawLoop
    \/ advanceTime

SpecApp == Init /\ [][NextApp]_vars

\* a running canvas fed by the hand tracker: frames of detected hands arrive while
\* the engine plays a genre
NextGesture ==
    \/ startExperience
    \/ startFulfilled
    \/ runEffect
    \/ trackerStarted
    \/ (appState = "RUNNING" /\ epoch = 0 /\ \E g \in Genres : loadGenre(g))
    \/ \E results \in Results : onHandResults(results)
    \/ drawLoop
    \/ (now < MaxGestureTime /\ advanceTime)

SpecGesture == Init /\ [][NextGesture]_vars

\* the sketch of a running canvas: set up, resized, redrawn at changing levels, torn
\* down and rebuilt when the genre changes
NextSketch ==
    \/ startExperience
    \/ startFulfilled
    \/ runEffect
    \/ effectCleanup
    \/ \E g \in Genres : selectGenre(g)
    \/ \E size \in WindowSizes : setup(size)
    \/ \E size \in WindowSizes : windowResized(size)
    \/ (frameCount < MaxDraws /\ \E raw \in Levels : \E ins \in InputsOf(raw) : draw(raw, ins))

SpecSketch == Init /\ [][NextSketch]_vars

\* frames whose hands are at the top or the bottom edge of the picture
EdgeResults == {r \in Results : \A i \in 1 .. Len(r) : r[i].y \in {0, YDen}}

\* the hand tracker and the render loop side by side: camera frames replace the
\* snapshot, draw ticks (of a silent engine) read it
NextSnapshot ==
    \/ startExperience
    \/ startFulfilled
    \/ runEffect
    \/ trackerStarted
    \/ \E size \in {z \in WindowSizes : z.w >= 200} : setup(size)
    \/ \E results \in EdgeResults : onHandResults(results)
    \/ (frameCount < MaxDraws /\ \E ins \in InputsOf(Silent) : draw(Silent, ins))

SpecSnapshot == Init /\ [][NextSnapshot]_vars

\* draw inputs of a flow that keeps pointing right
SteadyInputs == {ins \in InputsOf(Silent) : \A i \in 1 .. Len(agents) : ins[i].dir = Vec(1, 0)}

\* the notes of the backing loop are delivered to the canvas and their bursts fade,
\* in a small window, for as long as the render loop runs
NextBursts ==
    \/ startExperience
    \/ startFulfilled
    \/ runEffect
    \/ \E size \in {z \in WindowSizes : z.w < 200} : setup(size)
    \/ (appState = "RUNNING" /\ epoch = 0 /\ loadGenre(genreProp))
    \/ backingLoop
    \/ drawLoop
    \/ (now < MaxBurstTime /\ advanceTime)
    \/ \E ins \in SteadyInputs : draw(Silent, ins)

SpecBursts == Init /\ [][NextBursts]_vars

\* p5 calls setup once the sketch is created and draw on every animation frame
SpecBurstsFair ==
    /\ SpecBursts
    /\ WF_vars(\E size \in {z \in WindowSizes : z.w < 200} : setup(size))
    /\ WF_vars(\E ins \in SteadyInputs : draw(Silent, ins))

\* draw ticks that keep the followed nodes within MaxReach pixels of the origin
NodeTick ==
    \E raw \in Levels : \E ins \in InputsOf(raw) :
        /\ draw(raw, ins)
        /\ \A i \in 1 .. Len(agents) : Abs(agents'[i].pos.x) <= Px(MaxReach)

\* a graph-mode sketch in a small window, redrawn for as long as it runs
NextNodes ==
    \/ startExperience
    \/ startFulfilled
    \/ (p5Instance = "none" /\ selectGenre("ELECTRONIC"))
    \/ (genreProp = "ELECTRONIC" /\ runEffect)
    \/ \E size \in {z \in WindowSizes : z.w < 200} : setup(size)
    \/ NodeTick

SpecNodes == Init /\ [][NextNodes]_vars

\* p5 calls draw on every animation frame
SpecNodesFair == SpecNodes /\ WF_vars(NodeTick)

\* the engine's calls issued while earlier ones still wait on Tone.start(), with the
\* backing loop on a running clock
NextAsync ==
    \/ initializeCalled
    \/ \E genre \in Genres : loadGenreCalled(genre)
    \/ \E i \in 1 .. MaxParked : startResolved(i)
    \/ \E i \in 1 .. MaxParked : startRefused(i)
    \/ \E i \in 1 .. MaxParked : loadGenreResumed(i)
    \/ backingLoop
    \/ advanceTime

SpecAsync == Init /\ [][NextAsync]_vars

\* gesture updates on an engine that is loaded, stopped and loaded again
NextIdle ==
    \/ initialize
    \/ connectAudioEvents
    \/ \E genre \in Genres : loadGenre(genre)
    \/ stop
    \/ \E y \in Ys, x \in Xs, trigger \in BOOLEAN, squeeze \in Squeezes :
          updateRightHand(y, x, trigger, squeeze)
    \/ \E y \in Ys, x \in Xs, trigger \in BOOLEAN, squeeze \in Squeezes :
          updateLeftHand(y, x, trigger, squeeze)
    \/ backingLoop
    \/ (now < MaxGestureTime /\ advanceTime)

SpecIdle == Init /\ [][NextIdle]_vars

\* ------------------------------------------------------------ properties
HandOps == {"updateRightHand", "updateLeftHand"}

\* this.lastRightTime / this.lastLeftTime of a voice
LastTime(v) == IF v = "right" THEN lastRightTime ELSE lastLeftTime

\* the synth a voice's note commands go to, and the kind of its visual events
SynthOf(v) == IF v = "right" THEN "rightSynth" ELSE "leftSynth"
KindOf(v) == IF v = "right" THEN "LEAD" ELSE "RHYTHM"

\* the triggerAttackRelease commands the last call issued to the voice's synth
NoteCommands(v) == SelectSeq(fired, LAMBDA c : c.inst = SynthOf(v))

\* the last step was a hand update that asked for a trigger and reached the gate
Evaluated == call.op \in HandOps /\ call.trigger /\ call.noteIndex # -1

\* the last step was a hand update whose trigger was accepted: it commanded a note
AcceptedCall == Evaluated /\ NoteCommands(call.voice) # <<>>

\* the last step was a hand update whose trigger the gate rejected
RejectedCall == Evaluated /\ ~(call.triggerTime > call.prevLast)

\* C1: within one genre load, the fire times accepted for one voice are strictly
\* increasing: a trigger is accepted only when its candidate time is strictly
\* greater than the last accepted time of that voice, which then becomes that
\* candidate time, so no two note commands of a voice carry the same fire time.
C1_StrictlyIncreasing ==
    AcceptedCall =>
        /\ call.triggerTime > call.prevLast
        /\ LastTime(call.voice) = call.triggerTime
        /\ issued[call.voice].notes = 1
        /\ \A i \in 1 .. Len(NoteCommands(call.voice)) :
              NoteCommands(call.voice)[i].time = call.triggerTime

\* a second trigger of the same voice was accepted after an earlier accepted one
C1_Witness == AcceptedCall /\ call.prevLast > 0 /\ call.triggerTime > call.prevLast

\* the last step was the later of two trigger calls of one voice whose candidate
\* times resolved to the same subdivision boundary
SameBoundaryCall == Evaluated /\ call.prevTried = call.triggerTime

C3_Original ==
    Evaluated =>
        LET len == Len(Scale(call.voice, currentGenre))
        IN  /\ call.noteIndex \in 0 .. len - 1
            /\ call.y = 0 => call.noteIndex = len - 1
            /\ call.y = YDen => call.noteIndex = 0

\* C4 as stated: after loadGenre(B) no visual event scheduled under the previous
\* genre load is delivered to the renderer.
C4_Original ==
    \A i \in 1 .. Len(delivered) : delivered[i].epoch = epoch

\* sequence q is in nondecreasing order of time
TimeOrdered(q) == \A i, j \in 1 .. Len(q) : i < j => q[i].time <= q[j].time

Probe(t) == [time |-> t, kind |-> "PROBE", x |-> 0, y |-> 0, epoch |-> epoch]
ProbeAt(q) == CHOOSE i \in 1 .. Len(q) : q[i].kind = "PROBE"

C6_Original ==
    (Evaluated /\ call.gate /\ noteCallback) =>
        LET v == call.voice
            scale == Scale(v, currentGenre)
        IN  /\ Len(NoteCommands(v)) = 1
            /\ \E i \in 1 .. Len(scale) : NoteCommands(v)[1].args[1] = scale[i]
            /\ NoteCommands(v)[1].time = call.triggerTime
            /\ LastTime(v) = call.triggerTime
            /\ \E i \in 1 .. Len(drawEvents) :
                  /\ drawEvents[i].kind = KindOf(v)
                  /\ drawEvents[i].time = call.triggerTime

\* C7: a trigger the gate rejects is a silent no-op: no note command, no visual
\* event, the voice's last accepted time unchanged and nothing queued.
C7_RejectedNoOp ==
    RejectedCall =>
        /\ NoteCommands(call.voice) = <<>>
        /\ drawEvents = call.queued
        /\ LastTime(call.voice) = call.prevLast
        /\ issued[call.voice].notes <= 1

\* a trigger was rejected because its boundary had already been accepted
C7_Witness == RejectedCall /\ call.prevLast > 0 /\ noteCallback

\* the instruments of the loop's commands, in the order the callback issues them
PatternOrder(g) ==
    CASE g = "JAZZ" -> <<"bassSynth", "drumHiHat">>
      [] g = "ELECTRONIC" -> <<"bassSynth", "drumHiHat", "drumKick", "drumSnare">>
      [] g = "FUNK" -> <<"bassSynth", "drumKick", "drumSnare", "drumHiHat">>
PositionIn(seq, x) == CHOOSE i \in 1 .. Len(seq) : seq[i] = x

\* the last step was a loop tick that played its step
PlayedTick == call.op = "backingLoop" /\ call.played

IdleTick == call.op = "backingLoop" /\ ctxState # "running"

\* C9: a tick that occurs while the audio backend is not running commands no bass
\* or drum note, schedules no visual event and queues nothing for later.
C9_IdleTickSilent ==
    IdleTick =>
        /\ fired = <<>>
        /\ drawEvents = call.queued
        /\ ~call.played

\* a tick came while the backend was suspended, with instruments loaded, both
\* callbacks registered and a step due that has pattern entries
C9_Witness ==
    /\ IdleTick
    /\ inst["drumHiHat"] # Null
    /\ beatCallback /\ noteCallback
    /\ call.step = 0

\* C10 as stated: the step a fired tick plays is the number of ticks elapsed since
\* the loop started mod 16, so a tick after skipped ticks does not resume with the
\* step after the last played one.
C10_Original ==
    PlayedTick => call.step = call.tick % 16


\* C11: every loadGenre resets the transport and trigger state: the step counter
\* and the tick position are 0 and both voices' last accepted times are 0 when the
\* new loop starts, the first tick that plays after the load plays step 0, and the
\* first trigger of a voice after the load passes the gate whatever its candidate
\* time.
C11_LoadResets ==
    /\ call.op = "loadGenre" =>
          /\ loopCounter = 0 /\ tickIndex = 0 /\ loops = 1
          /\ lastRightTime = 0 /\ lastLeftTime = 0 /\ lastLeftNoteIndex = -1
    /\ (PlayedTick /\ call.prevStep = -1) => call.step = 0
    /\ (Evaluated /\ call.prevTried = 0) =>
          /\ call.prevLast = 0
          /\ call.triggerTime > 0
          /\ call.gate

\* after a reload both hand updates had run and the first trigger of a voice since
\* the reload passed the gate
C11_Witness ==
    /\ Evaluated /\ call.prevTried = 0 /\ call.gate
    /\ epoch = 2 /\ handCalls = 2
    /\ \E v \in Voices : issued[v].notes = 1


C13_Original ==
    call.op = "stop" => (drawEvents = <<>> /\ ~rafPending)


\* the engine's stopped state: no instruments, no callbacks, no scheduled pattern
Stopped ==
    /\ inst = NoInstruments
    /\ ~beatCallback /\ ~noteCallback
    /\ loops = 0 /\ transportState = "stopped"

\* C14: stop() can be called in every state and never fails; it always ends in the
\* stopped state (no instruments, no callbacks, no scheduled pattern), and called
\* on an engine that is already stopped, or that never loaded a genre, it changes
\* nothing of the engine, the transport or the draw queue.
C14_StopIdempotent ==
    /\ [](ENABLED stop)
    /\ [][stop => (Stopped' /\ (Stopped => UNCHANGED <<engineVars, transportVars, drawVars>>))]_vars

\* stop() was called again after a session had already been stopped
C14_Witness ==
    /\ call.op = "stop" /\ call.prevLoops = 0
    /\ epoch >= 1 /\ isInitialized
    /\ Stopped


\* C15 as stated: stopping a session tears down in the order pattern firing
\* stopped, visual event queue cleared, agent population released, gesture source
\* released.
C15_Original ==
    call.op = "effectCleanup" =>
        /\ loops = 0 /\ transportState = "stopped"
        /\ drawEvents = <<>>
        /\ teardown = <<"patternFiring", "eventQueue", "agentPopulation", "gestureSource">>


\* the step boundaries as the specification has them: step k of the running loop,
\* odd steps delayed by swing x stepDuration
SwungBoundary(k) ==
    TickTime(k) + (IF k % 2 = 1 THEN Round(swing * Sixteenth(bpm), 1000) ELSE 0)

\* C16 as stated: the candidate fire time of a trigger is not before the audio
\* clock's now and lies exactly on a step boundary, odd-indexed steps being delayed
\* by swing x stepDuration.
C16_Original ==
    Evaluated =>
        /\ call.triggerTime >= call.time
        /\ \E k \in 0 .. MaxTime : call.triggerTime = SwungBoundary(k)


\* C17 as stated: an event is never dropped for being late: a render tick that
\* runs after the fire time of a queued event of the current genre load, with its
\* callback registered, delivers that event.
C17_Original ==
    (call.op = "drawLoop" /\ ~call.threw) =>
        \A i \in 1 .. Len(call.queued) :
            LET e == call.queued[i]
            IN  (e.epoch = epoch /\ e.time <= call.time /\ CallbackRegistered(e)) =>
                    \E j \in 1 .. Len(delivered) : delivered[j] = e


\* the visual events one bar of a genre's pattern schedules with both callbacks
\* registered
StepVisuals(g, step) ==
    CASE g = "JAZZ" -> If(step % 4 = 0, <<"BASS">>)
      [] g = "ELECTRONIC" -> If(step % 2 = 0, <<"BASS">>)
                             \o If(step = 0 \/ step = 8 \/ step = 10, <<"KICK">>)
                             \o If(step = 4 \/ step = 12, <<"SNARE">>)
      [] g = "FUNK" -> If(step = 0 \/ step = 6 \/ step = 14, <<"BASS">>)
                       \o If(step = 0 \/ step = 10, <<"KICK">>)
                       \o If(step = 4 \/ step = 12, <<"SNARE">>)
RECURSIVE BarEventsFrom(_, _)
BarEventsFrom(g, step) ==
    IF step >= 16 THEN 0 ELSE Len(StepVisuals(g, step)) + BarEventsFrom(g, step + 1)

\* one full bar of events of the busiest pattern
BacklogBound ==
    CHOOSE m \in {BarEventsFrom(g, 0) : g \in Genres} :
        \A g \in Genres : BarEventsFrom(g, 0) <= m

\* C18 as stated, counting only the events of the current genre load: the backlog
\* of pending visual events never exceeds its bound, one full bar of events,
\* however long the render loop stalls.
C18_Original ==
    Cardinality({i \in 1 .. Len(drawEvents) : drawEvents[i].epoch = epoch}) <= BacklogBound


\* the last step was a hand update whose synth trigger call threw
FailedCall == Evaluated /\ call.threw

\* C19: when the synth trigger call throws inside a hand update the update still
\* completes: no note command is issued, the voice's last accepted time is
\* unchanged and no visual event is scheduled; later updates are processed
\* normally, so a further trigger for the boundary that failed still passes the
\* gate.
C19_ThrowIsContained ==
    /\ FailedCall =>
          /\ call.gate
          /\ NoteCommands(call.voice) = <<>>
          /\ LastTime(call.voice) = call.prevLast
          /\ drawEvents = call.queued
    /\ (Evaluated /\ call.prevTried = call.triggerTime /\ call.prevLast < call.triggerTime) =>
          call.gate

\* a trigger passed the gate for a boundary at which an earlier trigger call of
\* the voice had thrown, with a note callback registered
C19_Witness ==
    /\ Evaluated /\ call.prevTried = call.triggerTime /\ call.prevLast < call.triggerTime
    /\ AcceptedCall
    /\ noteCallback


\* the last step was a loop tick whose callback threw
ThrownTick == call.op = "backingLoop" /\ call.threw

\* C20 as stated: when a backend call throws during a tick the step counter still
\* advances, and every tick that runs the pattern plays the step after the one the
\* previous such tick played, so no entry of the failed step is fired again.
C20_Original ==
    /\ ThrownTick => loopCounter % 16 = (call.step + 1) % 16
    /\ ((PlayedTick \/ ThrownTick) /\ call.prevStep # -1) =>
          call.step = (call.prevStep + 1) % 16


\* C21: a failure to start the audio backend or the hand tracker puts the session
\* in ERROR, and ERROR is terminal: no step leaves it, and no step taken in ERROR
\* initializes the engine or starts the hand tracker again.
C21_ErrorIsTerminal ==
    [][/\ (call'.op \in {"startRejected", "trackerFailed"} => appState' = "ERROR")
       /\ (appState = "ERROR" =>
              /\ appState' = "ERROR"
              /\ isInitialized' = isInitialized
              /\ handTracker' \notin {"starting", "running"} \/ handTracker' = handTracker)]_vars

\* the hand tracker failed to start, and the session went on in ERROR with the
\* canvas cleaned up
C21_Witness ==
    /\ appState = "ERROR"
    /\ call.op = "effectCleanup"
    /\ isInitialized


\* the update does not return at its first line: the engine is initialized and the
\* voice's synth (and, for the left hand, its effect) exists
VoiceReady(v) ==
    /\ isInitialized
    /\ inst[SynthOf(v)] # Null
    /\ v = "left" => inst["leftEffect"] # Null

\* the parameters the continuous mapping of a voice writes
TimbreTargets(v) ==
    IF v = "right" THEN {"rightSynth.detune"}
    ELSE {"leftSynth.detune", "leftEffect.frequency", "leftFilter.frequency"}

\* C22: a hand update without a trigger condition, on a voice that exists, still
\* applies the voice's continuous timbre mapping, issues nothing else, and leaves
\* the voice's lastTriggerTime and the scheduled visual events as they were.
C22_NoTriggerMapsOnly ==
    (call.op \in HandOps /\ ~call.trigger /\ VoiceReady(call.voice)) =>
        /\ fired # <<>>
        /\ \A i \in 1 .. Len(fired) : fired[i].inst \in TimbreTargets(call.voice)
        /\ NoteCommands(call.voice) = <<>>
        /\ LastTime(call.voice) = call.prevLast
        /\ drawEvents = call.queued

\* a right-hand update without a trigger, after a trigger of that voice was accepted
C22_Witness ==
    /\ call.op = "updateRightHand"
    /\ ~call.trigger
    /\ VoiceReady("right")
    /\ fired # <<>>
    /\ lastRightTime > 0


\* the side of the snapshot an engine call was made for
SideOf(c) == IF c.op = "updateRightHand" THEN "right" ELSE "left"

\* C23 as stated: the hand-tracking callback signals a trigger to the engine only for
\* a hand that has a previous sample and moved from it by more than the dead-zone
\* threshold; any other present hand is passed without a trigger.
C23_Original ==
    call.op = "onHandResults" =>
        \A i \in 1 .. Len(call.calls) :
            call.calls[i].trigger <=>
                TriggerWhenMoved(call.calls[i].hand, call.prevHands[SideOf(call.calls[i])])


\* the side of the snapshot a detected hand goes to: isRight = label === 'Right'
LabelSide(label) == IF label = "Right" THEN "right" ELSE "left"

\* the coordinates a frame reported for a side
Reported(results, side) ==
    {Coords(results[i]) : i \in {k \in 1 .. Len(results) : LabelSide(results[k].label) = side}}

\* C24: after each hand-tracking callback the shared hand state holds exactly that
\* frame's hands (a side is present iff the frame reported a hand for it, with that
\* frame's coordinates), and a draw tick uses the hand vectors of the snapshot it
\* finds, nothing older.
C24_LatestSnapshotWins ==
    /\ call.op = "onHandResults" =>
           \A side \in {"left", "right"} :
               /\ handState[side] # <<>> <=> Reported(call.results, side) # {}
               /\ handState[side] # <<>> =>
                      handState[side][1] \in Reported(call.results, side)
    /\ call.op = "draw" =>
           /\ call.prevHands = handState
           /\ call.hands = [left |-> HandVec(handState.left),
                            right |-> HandVec(handState.right)]

\* a frame without the left hand arrives after a frame that had it, between draw
\* ticks
C24_Witness ==
    /\ call.op = "onHandResults"
    /\ call.prevHands.left # <<>>
    /\ handState.left = <<>>
    /\ handState.right # <<>>
    /\ frameCount > 0


\* C25: once the sketch is set up, and after every draw tick and window resize, the
\* population is of the sketch's genre and has exactly that genre's count (JAZZ 300,
\* FUNK 250, ELECTRONIC 60); a sketch built for another genre starts from an empty
\* population.
C25_PopulationIsGenreCount ==
    /\ p5Instance = "looping" =>
           /\ particles.class = ClassOf(sketchGenre)
           /\ particles.count = PopulationOf(sketchGenre)
           /\ particles.count = CASE sketchGenre = "JAZZ" -> 300
                                  [] sketchGenre = "FUNK" -> 250
                                  [] sketchGenre = "ELECTRONIC" -> 60
           /\ Len(agents) = TrackedOf(particles.class)
    /\ p5Instance = "mounted" => particles = NoParticles

\* the window is resized after draw ticks in a sketch rebuilt for ELECTRONIC
C25_Witness ==
    /\ call.op = "windowResized"
    /\ sketchGenre = "ELECTRONIC"
    /\ particles.count = 60
    /\ smoothedAudio > 0


\* the flow-field agents of a looping sketch
Liquid == p5Instance = "looping" /\ particles.class = "LiquidParticle"

\* where integration put agent i in the last draw tick: its old position plus the
\* velocity it has now
Integrated(i) == Plus(call.prevAgents[i].pos, agents[i].vel)

\* what the claim says of one axis: a coordinate past the far bound becomes 0, one
\* below 0 becomes the far bound, any other stays
Wrapped(c, q, bound) ==
    /\ q > bound => c = 0
    /\ q < 0 => c = bound
    /\ (q >= 0 /\ q <= bound) => c = q

\* C26: in flow-field mode an agent whose integrated position exceeds the canvas on
\* an axis is placed at the opposite bound of that axis in the same tick, moving on
\* with the velocity it was integrated with; every agent's position lies in
\* [0, width] x [0, height] after every update.
C26_WrapKeepsInside ==
    Liquid =>
        /\ \A i \in 1 .. Len(agents) :
               /\ agents[i].pos.x >= 0 /\ agents[i].pos.x <= Px(width)
               /\ agents[i].pos.y >= 0 /\ agents[i].pos.y <= Px(height)
        /\ call.op = "draw" =>
               \A i \in 1 .. Len(agents) :
                   /\ Wrapped(agents[i].pos.x, Integrated(i).x, Px(width))
                   /\ Wrapped(agents[i].pos.y, Integrated(i).y, Px(height))

\* an agent moving right left the canvas and is at the left bound, still moving right
C26_Witness ==
    /\ Liquid
    /\ call.op = "draw"
    /\ Integrated(1).x > Px(width)
    /\ agents[1].pos.x = 0
    /\ agents[1].vel.x > 0


\* the graph-mode nodes of a looping sketch, in a draw tick
GraphTick == p5Instance = "looping" /\ particles.class = "NeuralNode" /\ call.op = "draw"

\* the distance of nodes i and j when the tick began, below 180 + 100 x energy
Below(i, j) ==
    Dist(call.prevAgents[i].pos, call.prevAgents[j].pos) * EnergyDen
        < Px(180) * EnergyDen + Px(100) * smoothedAudio

EdgesOf(i, j) == {k \in 1 .. Len(call.edges) : {call.edges[k].i, call.edges[k].j} = {i, j}}

\* C27: in graph mode, for every unordered pair of nodes in a draw tick, a distance
\* below the threshold 180 + 100 x energy gives exactly one edge with alpha > 0, and
\* a distance at or beyond the threshold gives no edge.
C27_EdgeIffWithinThreshold ==
    GraphTick =>
        \A i \in 1 .. Len(agents) : \A j \in (i + 1) .. Len(agents) :
            /\ Below(i, j) =>
                   /\ Cardinality(EdgesOf(i, j)) = 1
                   /\ \A k \in EdgesOf(i, j) :
                          /\ call.edges[k].alpha.den > 0
                          /\ call.edges[k].alpha.num > 0
            /\ ~Below(i, j) => EdgesOf(i, j) = {}

\* two nodes 180 pixels or more apart are connected because the energy raised the
\* threshold
C27_Witness ==
    /\ GraphTick
    /\ smoothedAudio > 0
    /\ Dist(call.prevAgents[1].pos, call.prevAgents[2].pos) >= Px(180)
    /\ Len(call.edges) = 1
    /\ call.edges[1].alpha.num > 0


\* C28: while the meter readings since the sketch's smoothed energy was 0 have never
\* decreased, every draw tick leaves a smoothed energy that is not below the one
\* before, not above the level just read, and a max-speed cap of every flow-field
\* agent that is not below the cap it had.
C28_RisingLevelsRisingEnergy ==
    (call.op = "draw" /\ fed.rising) =>
        /\ smoothedAudio >= call.prevSmoothed
        /\ smoothedAudio <= call.raw
        /\ Liquid => \A i \in 1 .. Len(agents) :
                         /\ agents[i].maxSpeed >= call.prevAgents[i].maxSpeed
                         /\ agents[i].maxSpeed = MaxSpeedOf(agents[i].base, smoothedAudio)

\* the third draw tick of a rising feed: the energy and the cap went up again
C28_Witness ==
    /\ call.op = "draw"
    /\ fed.rising
    /\ Liquid
    /\ frameCount = MaxDraws
    /\ call.prevSmoothed > 0
    /\ smoothedAudio > call.prevSmoothed
    /\ smoothedAudio <= call.raw
    /\ agents[1].maxSpeed > call.prevAgents[1].maxSpeed


\* the vortex agents of a looping sketch
Vortex == p5Instance = "looping" /\ particles.class = "VortexParticle"

\* C30: in vortex mode every draw tick lowers each agent's depth by 15 + 100 x energy,
\* an amount that does not decrease with the energy; an agent whose depth would go
\* below 1 is respawned in the same tick at a depth in [1000, 2000]; every agent's
\* depth is at least 1 after every update.
C30_DepthStaysAhead ==
    /\ \A e1 \in 0 .. EnergyDen : \A e2 \in e1 .. EnergyDen :
           DepthStep(e1) > 0 /\ DepthStep(e1) <= DepthStep(e2)
    /\ Vortex =>
           /\ \A i \in 1 .. Len(agents) : agents[i].z >= 1
           /\ call.op = "draw" =>
                  \A i \in 1 .. Len(agents) :
                      LET z == call.prevAgents[i].z - DepthStep(smoothedAudio)
                      IN  /\ z >= 1 => agents[i].z = z
                          /\ z < 1 => agents[i].z \in 1000 .. 2000

\* a loud tick took an agent past the camera and it is far away again
C30_Witness ==
    /\ Vortex
    /\ call.op = "draw"
    /\ smoothedAudio > 0
    /\ call.prevAgents[1].z - DepthStep(smoothedAudio) < 1
    /\ agents[1].z >= 1000


\* the bursts a draw tick keeps: those whose life stays above 0 after the fade
Survivors(bursts) == SelectSeq(bursts, LAMBDA b : b.life - BurstFade > 0)

\* C29: a burst is pushed at full life only; every draw tick lowers each burst's life
\* by the same positive amount and removes the bursts that reach 0 or below, no
\* other step touches a burst already in the list, so a burst is in the list for a
\* bounded number of draw ticks and is never given new life; while the render loop
\* keeps ticking the list empties again and again.
C29_BurstsFadeOut ==
    /\ [](\A k \in 1 .. Len(noteTriggers) :
             noteTriggers[k].life > 0 /\ noteTriggers[k].life <= LifeDen)
    /\ [][/\ BurstFade > 0
          /\ call'.op = "draw" =>
                 /\ Len(noteTriggers') = Len(Survivors(noteTriggers))
                 /\ \A k \in 1 .. Len(noteTriggers') :
                        noteTriggers'[k] =
                            [Survivors(noteTriggers)[k] EXCEPT !.life = @ - BurstFade]
          /\ call'.op # "draw" =>
                 /\ Len(noteTriggers') >= Len(noteTriggers)
                 /\ \A k \in 1 .. Len(noteTriggers') :
                        IF k <= Len(noteTriggers) THEN noteTriggers'[k] = noteTriggers[k]
                        ELSE noteTriggers'[k].life = LifeDen]_vars
    /\ []<>(noteTriggers = <<>>)

\* a draw tick removed a burst that had faded to its last step
C29_Witness ==
    /\ call.op = "draw"
    /\ call.prevBursts # <<>>
    /\ call.prevBursts[1].life <= BurstFade
    /\ Len(noteTriggers) < Len(call.prevBursts)


\* graph node i of a looping sketch is outside the canvas on the x axis
NodeOutside(i) ==
    /\ p5Instance = "looping"
    /\ particles.class = "NeuralNode"
    /\ i <= Len(agents)
    /\ agents[i].pos.x < 0 \/ agents[i].pos.x > Px(width)

\* C31 as stated: a graph-mode node that is outside the canvas on an axis is inside
\* the canvas on that axis again after some further draw ticks.
C31_Original == \A i \in 1 .. SampleSize : NodeOutside(i) ~> ~NodeOutside(i)


\* C32 as stated: whatever the interleaving of initialize and loadGenre calls, the
\* master chain (limiter, meter, media destination, reverb) is constructed at most once.
C32_Original == masterChains <= 1

\* what a completed load of genre g leaves behind
SetupOf(g) == CASE g = "JAZZ" -> setupJazz(NoInstruments)
                [] g = "ELECTRONIC" -> setupElectronic(NoInstruments)
                [] g = "FUNK" -> setupFunk(NoInstruments)
PatternOf(g, step, t) ==
    CASE g = "JAZZ" -> {JazzCommands(step, t, b) : b \in BassChoices(g, step)}
      [] g = "ELECTRONIC" -> {ElectronicCommands(step, t, b) : b \in BassChoices(g, step)}
      [] g = "FUNK" -> {FunkCommands(step, t, o) : o \in OpenHatChoices(g, step)}
LoadsSettled == epoch > 0 /\ ParkedLoads = 0

\* C33: once every loadGenre call has completed, currentGenre, the instruments, the
\* tempo and swing and the entries the backing loop fires belong to one genre.
C33_OneGenreAfterLoads ==
    LoadsSettled =>
        /\ inst = SetupOf(currentGenre)
        /\ bpm = Bpm(currentGenre)
        /\ swing = SwingPermille(currentGenre)
        /\ transportState = "started" /\ loops = 1
        /\ call.op = "backingLoop" /\ call.played =>
               fired \in PatternOf(currentGenre, call.step, call.time)

\* two loads of different genres were parked together, both have completed and the
\* loop has played a step with entries
C33_Witness ==
    /\ LoadsSettled
    /\ epoch = 2
    /\ masterChains = 2
    /\ call.op = "backingLoop" /\ call.played /\ fired # <<>>
    /\ currentGenre # "JAZZ"


\* C34: after any sequence of loadGenre and stop calls at most one backing loop is
\* scheduled on the transport, and a tick that plays takes the step after the one
\* the previous tick of this load played.
C34_OneLoopOneStep ==
    /\ loops <= 1
    /\ call.op = "backingLoop" /\ call.played /\ call.prevStep # -1 =>
           call.step = (call.prevStep + 1) % 16

\* a second load has been made and its loop has played steps 0 and 1
C34_Witness ==
    /\ epoch = 2
    /\ loops = 1
    /\ call.op = "backingLoop" /\ call.played
    /\ call.prevStep = 0 /\ call.step = 1


\* C35 as stated: a run of the draw loop that finds a visual event scheduled before
\* stop() and due after it raises no exception: with the callbacks cleared nothing is
\* delivered and nothing is thrown.
C35_Original ==
    call.op = "drawLoop" /\ ~beatCallback /\ ~noteCallback /\ call.queued # <<>> =>
        ~call.threw /\ delivered = <<>>


\* no genre is loaded: before the first loadGenre, or after a stop() with no load since
Unloaded == loops = 0

\* C36: before the first loadGenre and after stop(), updateRightHand and
\* updateLeftHand do nothing: no command is issued, no visual event is scheduled,
\* neither voice's last trigger time changes and nothing is thrown.
C36_IdleHandsDoNothing ==
    [][Unloaded /\ call'.op \in {"updateRightHand", "updateLeftHand"} =>
           /\ fired' = <<>>
           /\ drawEvents' = drawEvents /\ rafPending' = rafPending
           /\ lastRightTime' = lastRightTime /\ lastLeftTime' = lastLeftTime
           /\ lastLeftNoteIndex' = lastLeftNoteIndex
           /\ ~call'.threw]_vars

\* a triggering gesture update arrived after a genre was loaded and stopped
C36_Witness ==
    /\ Unloaded
    /\ epoch > 0
    /\ isInitialized
    /\ call.op \in {"updateRightHand", "updateLeftHand"} /\ call.trigger


\* C37 as stated: a trigger accepted on a voice right after a loadGenre has a fire
\* time strictly later than the last fire time accepted on that voice before the
\* load.
C37_Original ==
    [][call.op = "loadGenre" /\ call'.op \in {"updateRightHand", "updateLeftHand"}
       /\ call'.trigger /\ call'.gate /\ ~call'.threw =>
           call'.triggerTime > call.prevLasts[call'.voice]]_vars


\* C38: the two gesture voices have independent trigger state: a right-hand update,
\* whether its trigger is accepted or rejected, leaves the left voice's last accepted
\* time unchanged, and a left-hand update leaves the right voice's unchanged.
C38_VoicesIndependent ==
    [][/\ call'.op = "updateRightHand" => lastLeftTime' = lastLeftTime
       /\ call'.op = "updateLeftHand" => lastRightTime' = lastRightTime]_vars

\* both voices have one accepted trigger each at the same subdivision boundary
C38_Witness ==
    /\ AcceptedCall
    /\ lastRightTime = lastLeftTime /\ lastRightTime > 0
    /\ issued["right"].notes = 1 /\ issued["left"].notes = 1


\* how many events of a kind a queue holds for a time
CountOf(q, kind, t) ==
    Cardinality({i \in 1 .. Len(q) : q[i].kind = kind /\ q[i].time = t})

\* the beat events of a kind the last tick of the backing loop scheduled
BeatsScheduled(kind) ==
    CountOf(drawEvents, kind, call.time) - CountOf(call.queued, kind, call.time)

\* C39: whenever a tick of the backing loop schedules a KICK or SNARE visual event,
\* the same tick has commanded a hit of that drum with the same time argument, and it
\* schedules no beat event for any other time.
C39_BeatHasHit ==
    call.op = "backingLoop" =>
        /\ \A kind \in {"KICK", "SNARE"} :
              BeatsScheduled(kind) > 0 =>
                  \E i \in 1 .. Len(fired) :
                      /\ fired[i].inst = InstrumentOf(kind)
                      /\ fired[i].time = call.time
        /\ \A i \in 1 .. Len(drawEvents) :
              IsBeat(drawEvents[i]) /\ drawEvents[i].time # call.time =>
                  \E j \in 1 .. Len(call.queued) : call.queued[j] = drawEvents[i]

\* the funk tick of step 10 scheduled a KICK flash and commanded the kick drum for
\* the same time
C39_Witness ==
    /\ call.op = "backingLoop" /\ currentGenre = "FUNK"
    /\ call.step = 10
    /\ BeatsScheduled("KICK") = 1
    /\ \E i \in 1 .. Len(fired) : fired[i].inst = "drumKick" /\ fired[i].time = call.time

====
